---- MODULE Spec2Model ----
(***************************************************************************)
(* Food-image analysis decision engine of HabitPet / @forki/features.      *)
(*                                                                         *)
(*  - the analyzer fallback chain of FoodAnalyzer (client package)         *)
(*  - the result normalizer FoodAnalyzer.mapToResult                       *)
(*  - the analyze_food edge function: routing, label sanitization and the  *)
(*    tiered macro calculator                                              *)
(*                                                                         *)
(* Numbers are fixed point: confidences in hundredths, grams of macros in  *)
(* hundredths on input and tenths once rounded, calories in tenths of a    *)
(* kcal on input and whole kcal once rounded.  Math.round is round half    *)
(* up, i.e. floor(x + 1/2).                                                *)
(***************************************************************************)
EXTENDS Integers, Sequences, FiniteSets, TLC

VARIABLES
    \* ---- fallback chain (FoodAnalyzer.analyzeViaDirectAnalyzers) ----
    env,            \* process.env: which variables are set (non-empty)
    config,         \* FoodAnalyzer.config: which fields are set (truthy)
    pc,             \* position of the one analysis call
    fallbackChain,  \* const fallbackChain = getFallbackChain()
    idx,            \* position of the for..of loop in fallbackChain (1-based)
    usedAnalyzers,  \* const usedAnalyzers: AnalyzerSource[]
    lastError,      \* let lastError: Error | null   (<<>> is null, else <<message>>)
    analysis,       \* let analysis: AnalyzeOutput | null (<<>> is null)
    backendMeta,    \* history: the meta of the object the backend returned
    inFlight,       \* history: analyzers whose analyze() promise is pending
    callLog,        \* history: analyzers in the order analyze() was invoked
    attemptLog,     \* history: <<analyzer, how the attempt ended, message>>
    outcome,        \* what analyzeViaDirectAnalyzers returned or threw
    \* ---- result normalizer (FoodAnalyzer.mapToResult) ----
    nPath,          \* "direct" (an analyzer's AnalyzeOutput) or "api" (legacy JSON)
    nItem,          \* the top item / legacy payload a backend supplied
    nMeta,          \* the meta that came with it
    nResult,        \* the FoodAnalysisResult (<<>> until normalized)
    \* ---- label sanitization (analyze_food/index.ts sanitizeLabel) ----
    sRaw,           \* a raw label
    sOnce,          \* sanitizeLabel(sRaw)            (<<>> until computed)
    sTwice,         \* sanitizeLabel(sanitizeLabel(sRaw))
    \* ---- macro calculator (analyze_food/index.ts calculateMacros) ----
    foodPriors,     \* the rows of the food_priors table
    mLabel,         \* calculateMacros arguments: label,
    mWeightGrams,   \*   weightGrams (tenths of a gram),
    mCalories,      \*   calories (tenths of a kcal)
    mResult,        \* <<>> until computed, then <<macros or undefined>>
    \* ---- edge function (analyze_food/index.ts serve handler) ----
    eApiKey,        \* CLASSIFIER_API_KEY is set
    eRequest,       \* the request body: which image references it carries
    ePc,            \* position of the handler for the one request
    eDetection,     \* imageTypeDetection (<<>> until detection returned)
    eHandlers,      \* history: evidence path handlers started, in order
    eCalls,         \* history: external calls made, in order
    ePayload,       \* what the path handler returned (<<>> until then)
    eResponse,      \* the Response returned (<<>> until then)
    \* ---- FoodAnalyzer.analyzeImage as a whole ----
    aUseApi,        \* this.useApiEndpoint && this.config.apiUrl
    aImage,         \* the image argument: "blob", "url", "base64" or "empty"
    aReaderOk,      \* FileReader reads the blob without error
    aResponses,     \* what each backend answers when its analyze is called
    aApiResponse,   \* what the API endpoint answers
    aPc,            \* position of analyzeImage
    aInput,         \* the AnalyzeInput built from the image (<<>> until then)
    aOutcome,       \* what analyzeImage settled with
    \* ---- loading the package module (src/index.ts) ----
    lEnv,           \* process.env when the module is loaded
    lPc,            \* "unloaded", "loaded", or "failed" (evaluation threw)
    lConfig,        \* _config is set
    lAnalyzer,      \* _foodAnalyzer is set
    lLogger,        \* _foodLogger is set
    lConstructed,   \* history: constructor calls <<class, who called it>>
    lAccesses,      \* history: property accesses on the exported proxies
    \* ---- the web app's AppProvider ----
    wPc,            \* "unmounted", "effect2", "effect3", "running"
    wState,         \* the reducer state (DemoState)
    wStorage,       \* localStorage['habitpet-app-state'], <<>> when unset
    wPersisted,     \* history: what the previous session left in localStorage
    wHasLoaded,     \* hasLoadedFromSupabaseRef.current
    wRemote,        \* ids of the user's rows in the food_logs table
    wLoad,          \* the mount-time getFoodLogs call
    wAdds,          \* the addFoodLog calls made so far
    wFallback       \* history: the state the localStorage fallback dispatched

chainVars == <<env, config, pc, fallbackChain, idx, usedAnalyzers, lastError,
               analysis, backendMeta, inFlight, callLog, attemptLog, outcome>>

normVars == <<nPath, nItem, nMeta, nResult>>

sanVars == <<sRaw, sOnce, sTwice>>

macVars == <<foodPriors, mLabel, mWeightGrams, mCalories, mResult>>

edgeVars == <<eApiKey, eRequest, ePc, eDetection, eHandlers, eCalls, ePayload, eResponse>>

imgVars == <<aUseApi, aImage, aReaderOk, aResponses, aApiResponse, aPc, aInput, aOutcome>>

loadVars == <<lEnv, lPc, lConfig, lAnalyzer, lLogger, lConstructed, lAccesses>>

appVars == <<wPc, wState, wStorage, wPersisted, wHasLoaded, wRemote, wLoad, wAdds, wFallback>>

vars == <<chainVars, normVars, sanVars, macVars, edgeVars, imgVars, loadVars, appVars>>

None == <<>>
Some(v) == <<v>>
IsSome(o) == o # <<>>
Val(o) == o[1]

(***************************************************************************)
(* Strings are sequences of one-character strings.                         *)
(***************************************************************************)
UpperToLower ==
    [A |-> "a", B |-> "b", C |-> "c", D |-> "d", E |-> "e", F |-> "f", G |-> "g",
     H |-> "h", I |-> "i", J |-> "j", K |-> "k", L |-> "l", M |-> "m", N |-> "n",
     O |-> "o", P |-> "p", Q |-> "q", R |-> "r", S |-> "s", T |-> "t", U |-> "u",
     V |-> "v", W |-> "w", X |-> "x", Y |-> "y", Z |-> "z"]

\* String.prototype.toLowerCase
toLowerCase(s) ==
    [i \in 1..Len(s) |-> IF s[i] \in DOMAIN UpperToLower THEN UpperToLower[s[i]] ELSE s[i]]

IsSpace(c) == c = " "

Digits == {"0", "1", "2", "3", "4", "5", "6", "7", "8", "9"}

\* [a-zA-Z0-9]
IsAlnum(c) ==
    \/ c \in DOMAIN UpperToLower
    \/ c \in {UpperToLower[u] : u \in DOMAIN UpperToLower}
    \/ c \in Digits

\* String.prototype.trim
RECURSIVE trimStart(_)
trimStart(s) == IF s # <<>> /\ IsSpace(s[1]) THEN trimStart(Tail(s)) ELSE s

RECURSIVE trimEnd(_)
trimEnd(s) ==
    IF s # <<>> /\ IsSpace(s[Len(s)]) THEN trimEnd(SubSeq(s, 1, Len(s) - 1)) ELSE s

trim(s) == trimEnd(trimStart(s))

\* String.prototype.includes
includes(s, sub) ==
    \E i \in 0..(Len(s) - Len(sub)) : SubSeq(s, i + 1, i + Len(sub)) = sub

(***************************************************************************)
(* FoodAnalyzer.mapToResult and its helpers                                *)
(***************************************************************************)
\* Math.round of n/d for d > 0: floor(n/d + 1/2)
RoundDiv(n, d) == (2 * n + d) \div (2 * d)

\* A JS number that may be NaN.  val is in hundredths.
Num(v) == [nan |-> FALSE, val |-> v]
NaN == [nan |-> TRUE, val |-> 0]

\* A confidence as it arrives in a backend's JSON: absent (undefined or
\* null), a number (hundredths), or a non-numeric string such as "high".
ConfMissing == [kind |-> "missing", val |-> 0]
ConfNumber(v) == [kind |-> "number", val |-> v]
ConfInvalid == [kind |-> "invalid", val |-> 0]

DefaultConfidence == 60

\* Math.max / Math.min coerce a non-numeric string to NaN, and NaN wins
toNumber(c) == IF c.kind = "number" THEN Num(c.val) ELSE NaN

\* clamp(value, min, max) = Math.min(Math.max(value, min), max)
clamp(value, min, max) ==
    LET n == toNumber(value)
        lower == IF n.val > min THEN n.val ELSE min
    IN  IF n.nan THEN NaN
        ELSE Num(IF lower < max THEN lower ELSE max)

\* topItem?.confidence ?? 0.6
nullish(c, dflt) == IF c.kind = "missing" THEN ConfNumber(dflt) ELSE c

\* data.confidence || 0.6 : undefined, null and 0 are falsy, a non-empty
\* string is truthy
falsyOr(c, dflt) ==
    IF c.kind = "missing" \/ (c.kind = "number" /\ c.val = 0) THEN ConfNumber(dflt) ELSE c

\* estimateCalories: const foodCalories (in insertion order)
foodCalories ==
    << <<<<"a", "p", "p", "l", "e">>, 95>>,
       <<<<"b", "a", "n", "a", "n", "a">>, 105>>,
       <<<<"o", "r", "a", "n", "g", "e">>, 62>>,
       <<<<"g", "r", "a", "p", "e">>, 62>>,
       <<<<"s", "t", "r", "a", "w", "b", "e", "r", "r", "y">>, 4>>,
       <<<<"b", "l", "u", "e", "b", "e", "r", "r", "y">>, 4>>,
       <<<<"a", "v", "o", "c", "a", "d", "o">>, 234>>,
       <<<<"b", "r", "o", "c", "c", "o", "l", "i">>, 55>>,
       <<<<"c", "a", "r", "r", "o", "t">>, 25>>,
       <<<<"l", "e", "t", "t", "u", "c", "e">>, 5>>,
       <<<<"t", "o", "m", "a", "t", "o">>, 18>>,
       <<<<"c", "u", "c", "u", "m", "b", "e", "r">>, 16>>,
       <<<<"s", "p", "i", "n", "a", "c", "h">>, 7>>,
       <<<<"p", "o", "t", "a", "t", "o">>, 77>>,
       <<<<"s", "w", "e", "e", "t", " ", "p", "o", "t", "a", "t", "o">>, 86>>,
       <<<<"c", "h", "i", "c", "k", "e", "n">>, 165>>,
       <<<<"b", "e", "e", "f">>, 250>>,
       <<<<"f", "i", "s", "h">>, 206>>,
       <<<<"s", "a", "l", "m", "o", "n">>, 206>>,
       <<<<"e", "g", "g">>, 70>>,
       <<<<"t", "o", "f", "u">>, 94>>,
       <<<<"c", "h", "e", "e", "s", "e">>, 113>>,
       <<<<"r", "i", "c", "e">>, 130>>,
       <<<<"b", "r", "e", "a", "d">>, 80>>,
       <<<<"p", "a", "s", "t", "a">>, 131>>,
       <<<<"q", "u", "i", "n", "o", "a">>, 120>>,
       <<<<"o", "a", "t", "s">>, 154>>,
       <<<<"m", "i", "l", "k">>, 42>>,
       <<<<"y", "o", "g", "u", "r", "t">>, 59>>,
       <<<<"b", "u", "t", "t", "e", "r">>, 102>>,
       <<<<"a", "l", "m", "o", "n", "d">>, 7>>,
       <<<<"w", "a", "l", "n", "u", "t">>, 49>>,
       <<<<"p", "e", "a", "n", "u", "t">>, 6>>,
       <<<<"d", "e", "f", "a", "u", "l", "t">>, 100>> >>

TableDefault == 100

estimateCalories(foodName) ==
    LET normalizedName == trim(toLowerCase(foodName))
        exact == {i \in 1..Len(foodCalories) : foodCalories[i][1] = normalizedName}
        loose == {i \in 1..Len(foodCalories) :
                     \/ includes(normalizedName, foodCalories[i][1])
                     \/ includes(foodCalories[i][1], normalizedName)}
        first(S) == CHOOSE i \in S : \A j \in S : i <= j
    IN  IF exact # {} THEN foodCalories[first(exact)][2]
        ELSE IF loose # {} THEN foodCalories[first(loose)][2]
        ELSE TableDefault

(***************************************************************************)
(* config/getConfig.ts: analyzer availability and the fallback chain       *)
(***************************************************************************)
EnvNames == {"SUPABASE_URL", "NEXT_PUBLIC_SUPABASE_URL", "SUPABASE_ANON_KEY",
             "NEXT_PUBLIC_SUPABASE_ANON_KEY", "OPENAI_API_KEY"}

Envs == [EnvNames -> BOOLEAN]

\* (process.env.SUPABASE_URL) || (process.env.NEXT_PUBLIC_SUPABASE_URL) || ''
getAnalyzerAvailability(e) ==
    LET supabaseUrl == e["SUPABASE_URL"] \/ e["NEXT_PUBLIC_SUPABASE_URL"]
        supabaseKey == e["SUPABASE_ANON_KEY"] \/ e["NEXT_PUBLIC_SUPABASE_ANON_KEY"]
        openaiKey   == e["OPENAI_API_KEY"]
    IN  [stub |-> TRUE, supabase |-> supabaseUrl /\ supabaseKey, openai |-> openaiKey]

getFallbackChain_StubFirst(e) ==
    LET availability == getAnalyzerAvailability(e)
    IN  <<"stub">>
        \o (IF availability.supabase THEN <<"supabase">> ELSE <<>>)
        \o (IF availability.openai THEN <<"openai">> ELSE <<>>)

getFallbackChain(e) ==
    LET availability == getAnalyzerAvailability(e)
    IN  (IF availability.supabase THEN <<"supabase">> ELSE <<>>)
        \o (IF availability.openai THEN <<"openai">> ELSE <<>>)
        \o <<"stub">>

(***************************************************************************)
(* core/FoodAnalyzer.ts: resolveAnalyzer and the analyzers                 *)
(***************************************************************************)
ConfigNames == {"supabaseUrl", "supabaseKey", "openaiKey"}

Configs == [ConfigNames -> BOOLEAN]

\* resolveAnalyzer(type): <<>> when the analyzer is constructed, <<message>>
\* when it throws
resolveAnalyzer(type, cfg) ==
    CASE type = "supabase" ->
            IF ~cfg["supabaseUrl"] \/ ~cfg["supabaseKey"]
                THEN Some("Supabase credentials not configured")
                ELSE None
      [] type = "openai" ->
            IF ~cfg["openaiKey"]
                THEN Some("OpenAI API key not configured")
                ELSE None
      [] OTHER -> None

\* The messages analyze() rejects with, per analyzer.
AnalyzeErrors(type) ==
    CASE type = "supabase" -> {"Supabase analyzer failed: 400",
                               "Supabase analyzer failed: 500",
                               "Supabase analyzer returned empty payload"}
      [] type = "openai"   -> {"OpenAI analyzer failed: 429",
                               "OpenAI analyzer returned unparseable payload"}
      [] OTHER             -> {"Stub analyzer failed"}

\* meta of an AnalyzeOutput: meta?: { used, latencyMs?, isFallback? }
Meta(present, used, isFallback) ==
    [present |-> present, used |-> used, isFallback |-> isFallback]

NoMeta == Meta(FALSE, <<>>, "undefined")

\* The meta of the object analyze() resolves with, per analyzer:
\*   SupabaseAnalyzer: { used: ['supabase'], ...data.meta } where the edge
\*     function's own meta.used is ["supabase", "openai" | "classifier"]
\*   OpenAIAnalyzer:   { used: ['openai'], ...parsed.meta }
\*   StubAnalyzer:     meta is optional in AnalyzeOutput
AnalyzeMetas(type) ==
    CASE type = "supabase" -> {Meta(TRUE, <<"supabase">>, "undefined"),
                               Meta(TRUE, <<"supabase", "openai">>, "undefined"),
                               Meta(TRUE, <<"supabase", "classifier">>, "undefined")}
      [] type = "openai"   -> {Meta(TRUE, <<"openai">>, "undefined"),
                               Meta(TRUE, <<"openai">>, "false")}
      [] OTHER             -> {NoMeta, Meta(TRUE, <<"stub">>, "undefined")}

\* An AnalyzeOutput as the chain sees it: who produced the items, and meta.
Output(source, meta) == [source |-> source, meta |-> meta]

\* lines 120-126: meta.used and meta.isFallback are overwritten, whatever the
\* backend returned
attachMeta_KeepBackend(a, used) ==
    IF ~a.meta.present
        THEN [a EXCEPT !.meta = Meta(TRUE, used,
                                     IF Len(used) > 1 THEN "true" ELSE "false")]
        ELSE [a EXCEPT !.meta = Meta(TRUE, a.meta.used,
                                     IF Len(a.meta.used) > 1 THEN "true" ELSE "false")]

attachMeta(a, used) ==
    [a EXCEPT !.meta = Meta(TRUE, used, IF Len(used) > 1 THEN "true" ELSE "false")]

\* `All analyzers failed. Last error: ${lastError?.message || 'Unknown error'}`
aggregateMessage(err) ==
    IF IsSome(err) /\ Val(err) # "" THEN Val(err) ELSE "Unknown error"

\* What analyzeViaDirectAnalyzers did: still running, returned an
\* AnalyzeOutput, or threw new Error(`All analyzers failed. Last error: ...`).
Pending == [kind |-> "pending", value |-> None, lastErrorText |-> ""]
Returned(a) == [kind |-> "returned", value |-> Some(a), lastErrorText |-> ""]
Thrown(text) == [kind |-> "thrown", value |-> None, lastErrorText |-> text]

(***************************************************************************)
(* FoodAnalyzer.mapToResult and convertLegacyToOutput                      *)
(***************************************************************************)
\* An AnalyzeItem as far as mapToResult reads it.  label and calories and
\* macros are optional; calories are in tenths of a kcal, macros in
\* hundredths of a gram.
Item(label, confidence, calories, macros) ==
    [label |-> label, confidence |-> confidence, calories |-> calories, macros |-> macros]

Macros(p, c, f) == [proteinG |-> p, carbsG |-> c, fatG |-> f]

FoodItemName == <<"F", "o", "o", "d", " ", "I", "t", "e", "m">>

\* the macros with zeros written for absent ones
roundMacros_ZeroFill(m) ==
    IF IsSome(m)
        THEN Some(Macros(RoundDiv(Val(m).proteinG, 10), RoundDiv(Val(m).carbsG, 10),
                         RoundDiv(Val(m).fatG, 10)))
        ELSE Some(Macros(0, 0, 0))

\* lines 189-196: Math.round(x * 10) / 10 on each macro; hundredths -> tenths
roundMacros(m) ==
    IF IsSome(m)
        THEN Some(Macros(RoundDiv(Val(m).proteinG, 10), RoundDiv(Val(m).carbsG, 10),
                         RoundDiv(Val(m).fatG, 10)))
        ELSE None

\* line 202: Math.round(proteinG * 4 + carbsG * 4 + fatG * 9), macros in tenths
calculatedFromMacros(m) == RoundDiv(m.proteinG * 4 + m.carbsG * 4 + m.fatG * 9, 10)

\* line 203 / 213: typeof calories === 'number' ? Math.round(calories) : null
caloriesFromItem(calories) ==
    IF IsSome(calories) THEN Some(RoundDiv(Val(calories), 10)) ELSE None

MinMacroCalories == 20

\* line 207: calculatedFromMacros >= 20 && (!caloriesFromItem ||
\*           caloriesFromItem < 20 || calculatedFromMacros > caloriesFromItem * 0.5)
useMacroCalories_NoFloor(calc, fromItem) ==
    \/ ~IsSome(fromItem)
    \/ Val(fromItem) = 0
    \/ Val(fromItem) < MinMacroCalories
    \/ 2 * calc > Val(fromItem)

useMacroCalories(calc, fromItem) ==
    /\ calc >= MinMacroCalories
    /\ \/ ~IsSome(fromItem)
       \/ Val(fromItem) = 0
       \/ Val(fromItem) < MinMacroCalories
       \/ 2 * calc > Val(fromItem)

\* lines 200-216
reconcileCalories(foodName, macros, calories) ==
    LET fromItem == caloriesFromItem(calories)
    IN  IF IsSome(macros)
            THEN IF useMacroCalories(calculatedFromMacros(Val(macros)), fromItem)
                    THEN calculatedFromMacros(Val(macros))
                    ELSE IF IsSome(fromItem) THEN Val(fromItem)
                         ELSE estimateCalories(foodName)
            ELSE IF IsSome(fromItem) THEN Val(fromItem)
                 ELSE estimateCalories(foodName)

\* lines 183-237.  topItem is result.items[0] (<<>> when items is empty).
mapToResult(topItem, meta) ==
    LET foodName == IF IsSome(topItem) /\ IsSome(Val(topItem).label)
                        THEN Val(Val(topItem).label) ELSE FoodItemName
        confidence == clamp(nullish(IF IsSome(topItem) THEN Val(topItem).confidence
                                    ELSE ConfMissing, DefaultConfidence), 0, 100)
        macros == IF IsSome(topItem) THEN roundMacros(Val(topItem).macros) ELSE None
        calories == reconcileCalories(foodName, macros,
                        IF IsSome(topItem) THEN Val(topItem).calories ELSE None)
        used == IF meta.present /\ Len(meta.used) > 0 THEN meta.used ELSE <<"stub">>
    IN  [foodType |-> foodName,
         confidence |-> confidence,
         calories |-> calories,
         macros |-> macros,
         analyzerSource |-> used[1],
         usedFallback |-> (meta.present /\ meta.isFallback = "true")]

\* lines 242-260: the legacy API response becomes a one-item AnalyzeOutput.
\* data.foodType || 'Food Item', data.confidence || 0.6,
\* data.meta?.used || ['stub']
convertLegacyToOutput(data, meta) ==
    [item |-> Some(Item(IF IsSome(data.label) /\ Val(data.label) # <<>>
                            THEN data.label ELSE Some(FoodItemName),
                        falsyOr(data.confidence, DefaultConfidence),
                        data.calories,
                        data.macros)),
     meta |-> Meta(TRUE, IF meta.present THEN meta.used ELSE <<"stub">>,
                   IF meta.present THEN meta.isFallback ELSE "undefined")]

(***************************************************************************)
(* FoodAnalyzer.analyzeViaDirectAnalyzers, one step per suspension point   *)
(***************************************************************************)
ChainIdle ==
    /\ env = [n \in EnvNames |-> FALSE]
    /\ config = [n \in ConfigNames |-> FALSE]
    /\ pc = "off"
    /\ fallbackChain = <<>>
    /\ idx = 1
    /\ usedAnalyzers = <<>>
    /\ lastError = None
    /\ analysis = None
    /\ backendMeta = NoMeta
    /\ inFlight = {}
    /\ callLog = <<>>
    /\ attemptLog = <<>>
    /\ outcome = Pending

NormIdle ==
    /\ nPath = "off"
    /\ nItem = None
    /\ nMeta = NoMeta
    /\ nResult = None

SanIdle ==
    /\ sRaw = <<>>
    /\ sOnce = None
    /\ sTwice = None

MacIdle ==
    /\ foodPriors = {}
    /\ mLabel = <<>>
    /\ mWeightGrams = 0
    /\ mCalories = 0
    /\ mResult = None

EdgeIdle ==
    /\ eApiKey = FALSE
    /\ eRequest = [json |-> FALSE, imageUrl |-> FALSE, imageBase64 |-> FALSE]
    /\ ePc = "off"
    /\ eDetection = None
    /\ eHandlers = <<>>
    /\ eCalls = <<>>
    /\ ePayload = None
    /\ eResponse = None

\* a backend's answer to analyze(input): resolves with items[0] and meta, or
\* rejects with a message
BackendResponse(ok, error, meta, item) ==
    [ok |-> ok, error |-> error, meta |-> meta, item |-> item]

\* what analyzeImage settled with
ImagePending == [kind |-> "pending", result |-> None, error |-> ""]
ImageResolved(result) == [kind |-> "resolved", result |-> Some(result), error |-> ""]
ImageRejected(error) == [kind |-> "rejected", result |-> None, error |-> error]

\* DemoState as far as the provider's effects read it
DemoState(foodLogs, isOnboardingComplete) ==
    [foodLogs |-> foodLogs, isOnboardingComplete |-> isOnboardingComplete]

\* lines 36-42
initialState == DemoState(<<>>, FALSE)

\* a call to the database: requested, served (ok tells how), settled
DbCall(status, ok, logs) == [status |-> status, ok |-> ok, logs |-> logs]

AppIdle ==
    /\ wPc = "off"
    /\ wState = initialState
    /\ wStorage = None
    /\ wPersisted = None
    /\ wHasLoaded = FALSE
    /\ wRemote = <<>>
    /\ wLoad = DbCall("idle", FALSE, <<>>)
    /\ wAdds = <<>>
    /\ wFallback = None

LoadIdle ==
    /\ lEnv = [n \in EnvNames |-> FALSE]
    /\ lPc = "off"
    /\ lConfig = FALSE
    /\ lAnalyzer = FALSE
    /\ lLogger = FALSE
    /\ lConstructed = <<>>
    /\ lAccesses = <<>>

ImageIdle ==
    /\ aUseApi = FALSE
    /\ aImage = "none"
    /\ aReaderOk = TRUE
    /\ aResponses = [t \in {"supabase", "openai", "stub"} |->
                        BackendResponse(FALSE, "", NoMeta, None)]
    /\ aApiResponse = BackendResponse(FALSE, "", NoMeta, None)
    /\ aPc = "off"
    /\ aInput = None
    /\ aOutcome = ImagePending

ChainFrame == UNCHANGED <<normVars, sanVars, macVars, edgeVars, imgVars, loadVars, appVars>>

NormFrame == UNCHANGED <<chainVars, sanVars, macVars, edgeVars, imgVars, loadVars, appVars>>

SanFrame == UNCHANGED <<chainVars, normVars, macVars, edgeVars, imgVars, loadVars, appVars>>

MacFrame == UNCHANGED <<chainVars, normVars, sanVars, edgeVars, imgVars, loadVars, appVars>>

EdgeFrame == UNCHANGED <<chainVars, normVars, sanVars, macVars, imgVars, loadVars, appVars>>

ImageFrame == UNCHANGED <<normVars, sanVars, macVars, edgeVars, loadVars, appVars>>

LoadFrame == UNCHANGED <<chainVars, normVars, sanVars, macVars, edgeVars, imgVars, appVars>>

AppFrame == UNCHANGED <<chainVars, normVars, sanVars, macVars, edgeVars, imgVars, loadVars>>

InitChain ==
    /\ LoadIdle
    /\ AppIdle
    /\ ImageIdle
    /\ NormIdle
    /\ SanIdle
    /\ MacIdle
    /\ EdgeIdle
    /\ env \in Envs
    /\ config \in Configs
    /\ pc = "idle"
    /\ fallbackChain = <<>>
    /\ idx = 1
    /\ usedAnalyzers = <<>>
    /\ lastError = None
    /\ analysis = None
    /\ backendMeta = NoMeta
    /\ inFlight = {}
    /\ callLog = <<>>
    /\ attemptLog = <<>>
    /\ outcome = Pending

\* lines 95-98: the chain is read from the environment, the locals are reset
BeginAnalyze ==
    /\ pc = "idle"
    /\ fallbackChain' = getFallbackChain(env)
    /\ idx' = 1
    /\ usedAnalyzers' = <<>>
    /\ lastError' = None
    /\ analysis' = None
    /\ pc' = "loop"
    /\ UNCHANGED <<env, config, backendMeta, inFlight, callLog, attemptLog, outcome>>
    /\ ChainFrame

\* where the loop goes after the catch block: the next analyzer, or the end
nextAfterFailure_Abort(i) == "after"

nextAfterFailure(i) == IF i + 1 > Len(fallbackChain) THEN "after" ELSE "loop"

\* line 109: lastError = error instanceof Error ? error : new Error(String(error))
recordError_KeepFirst(prev, msg) == IF IsSome(prev) THEN prev ELSE Some(msg)

recordError(prev, msg) == Some(msg)

\* lines 107-111: the catch block
catchError(type, msg, how) ==
    /\ usedAnalyzers' = Append(usedAnalyzers, type)
    /\ lastError' = recordError(lastError, msg)
    /\ attemptLog' = Append(attemptLog, <<type, how, msg>>)
    /\ idx' = idx + 1
    /\ pc' = nextAfterFailure(idx)

\* line 103, resolveAnalyzer throws: straight to the catch block
ResolveThrows ==
    /\ pc = "loop"
    /\ idx <= Len(fallbackChain)
    /\ LET type == fallbackChain[idx]
           r == resolveAnalyzer(type, config)
       IN  /\ IsSome(r)
           /\ catchError(type, Val(r), "resolve-threw")
    /\ UNCHANGED <<env, config, fallbackChain, analysis, backendMeta, inFlight,
                   callLog, outcome>>
    /\ ChainFrame

\* lines 103-104: the analyzer is constructed and analyze(input) is called;
\* the call suspends at the await
InvokeAnalyze ==
    /\ pc = "loop"
    /\ idx <= Len(fallbackChain)
    /\ LET type == fallbackChain[idx]
       IN  /\ resolveAnalyzer(type, config) = None
           /\ inFlight' = inFlight \cup {type}
           /\ callLog' = Append(callLog, type)
    /\ pc' = "await"
    /\ UNCHANGED <<env, config, fallbackChain, idx, usedAnalyzers, lastError,
                   analysis, backendMeta, attemptLog, outcome>>
    /\ ChainFrame

\* where the loop goes after a success (line 106: break)
nextAfterSuccess_NoBreak(i) == IF i + 1 > Len(fallbackChain) THEN "after" ELSE "loop"

nextAfterSuccess(i) == "after"

\* lines 104-106: analyze() resolved
AnalyzeResolves ==
    /\ pc = "await"
    /\ LET type == fallbackChain[idx]
       IN  \E m \in AnalyzeMetas(type) :
             /\ analysis' = Some(Output(type, m))
             /\ backendMeta' = m
             /\ usedAnalyzers' = Append(usedAnalyzers, type)
             /\ attemptLog' = Append(attemptLog, <<type, "resolved", "">>)
             /\ inFlight' = inFlight \ {type}
    /\ pc' = nextAfterSuccess(idx)
    /\ idx' = IF pc' = "loop" THEN idx + 1 ELSE idx
    /\ UNCHANGED <<env, config, fallbackChain, lastError, callLog, outcome>>
    /\ ChainFrame

\* lines 104, 107-111: analyze() rejected
AnalyzeRejects ==
    /\ pc = "await"
    /\ LET type == fallbackChain[idx]
       IN  \E msg \in AnalyzeErrors(type) :
             /\ catchError(type, msg, "rejected")
             /\ inFlight' = inFlight \ {type}
    /\ UNCHANGED <<env, config, fallbackChain, analysis, backendMeta, callLog,
                   outcome>>
    /\ ChainFrame

\* lines 114-118: no analyzer succeeded
ThrowAllFailed ==
    /\ pc = "after"
    /\ analysis = None
    /\ outcome' = Thrown(aggregateMessage(lastError))
    /\ pc' = "done"
    /\ UNCHANGED <<env, config, fallbackChain, idx, usedAnalyzers, lastError,
                   analysis, backendMeta, inFlight, callLog, attemptLog>>
    /\ ChainFrame

\* lines 120-128: the metadata is attached and the analysis returned
ReturnAnalysis ==
    /\ pc = "after"
    /\ IsSome(analysis)
    /\ analysis' = Some(attachMeta(Val(analysis), usedAnalyzers))
    /\ outcome' = Returned(Val(analysis'))
    /\ pc' = "done"
    /\ UNCHANGED <<env, config, fallbackChain, idx, usedAnalyzers, lastError,
                   backendMeta, inFlight, callLog, attemptLog>>
    /\ ChainFrame

NextChain ==
    \/ BeginAnalyze
    \/ ResolveThrows
    \/ InvokeAnalyze
    \/ AnalyzeResolves
    \/ AnalyzeRejects
    \/ ThrowAllFailed
    \/ ReturnAnalysis

SpecChain == InitChain /\ [][NextChain]_vars

(***************************************************************************)
(* FoodAnalyzer.analyzeImage: input conversion, API endpoint or fallback   *)
(* chain, then mapToResult                                                 *)
(***************************************************************************)
AnalyzerTypes == {"supabase", "openai", "stub"}

\* items[0] of what each backend resolves with
BackendItem(type) ==
    CASE type = "supabase" -> Some(Item(Some(<<"a", "p", "p", "l", "e">>), ConfNumber(73), Some(950), None))
      [] type = "openai" -> Some(Item(Some(<<"G", "r", "i", "l", "l", "e", "d", " ", "C", "h", "i", "c", "k", "e", "n">>), ConfNumber(100), None,
                                     Some(Macros(3000, 0, 2000))))
      [] OTHER -> Some(Item(Some(<<"M", "y", "s", "t", "e", "r", "y">>), ConfNumber(60), None, None))

\* the answers a backend may give to one analyze call
BackendResponses(type) ==
    {BackendResponse(FALSE, e, NoMeta, None) : e \in AnalyzeErrors(type)} \cup
    {BackendResponse(TRUE, "", m, BackendItem(type)) : m \in AnalyzeMetas(type)}

\* analyzeViaAPI lines 64-88: fetch rejects, the response is not OK, or the
\* legacy JSON of the route
ApiResponses ==
    {BackendResponse(FALSE, "TypeError: fetch failed", NoMeta, None),
     BackendResponse(FALSE, "API analysis failed: 500", NoMeta, None),
     BackendResponse(TRUE, "", NoMeta,
                     Some(Item(Some(<<"a", "p", "p", "l", "e">>), ConfNumber(73), Some(950), None))),
     BackendResponse(TRUE, "", Meta(TRUE, <<"supabase", "stub">>, "true"),
                     Some(Item(None, ConfMissing, None, None)))}

\* the environments analyzeImage is run in
ImageEnvs ==
    {e \in Envs : /\ e["SUPABASE_URL"] = FALSE
                  /\ e["SUPABASE_ANON_KEY"] = FALSE
                  /\ e["NEXT_PUBLIC_SUPABASE_URL"] = e["NEXT_PUBLIC_SUPABASE_ANON_KEY"]}

\* convertImageToInput lines 157-163: a string becomes imageUrl when it
\* starts with http://, https:// or data:, else imageBase64 (the empty
\* string included); lines 172-174: a blob becomes imageBase64
convertImageToInput(image) ==
    CASE image = "url" -> [imageUrl |-> TRUE, imageBase64 |-> FALSE, empty |-> FALSE]
      [] image = "empty" -> [imageUrl |-> FALSE, imageBase64 |-> TRUE, empty |-> TRUE]
      [] OTHER -> [imageUrl |-> FALSE, imageBase64 |-> TRUE, empty |-> FALSE]

\* the input carries an image reference: imageUrl or a non-empty imageBase64
HasImageReference(input) == input.imageUrl \/ (input.imageBase64 /\ ~input.empty)

InitImage ==
    /\ LoadIdle
    /\ AppIdle
    /\ NormIdle
    /\ SanIdle
    /\ MacIdle
    /\ EdgeIdle
    /\ env \in ImageEnvs
    /\ config \in Configs
    /\ pc = "off"
    /\ fallbackChain = <<>>
    /\ idx = 1
    /\ usedAnalyzers = <<>>
    /\ lastError = None
    /\ analysis = None
    /\ backendMeta = NoMeta
    /\ inFlight = {}
    /\ callLog = <<>>
    /\ attemptLog = <<>>
    /\ outcome = Pending
    /\ aUseApi \in BOOLEAN
    /\ aImage \in {"blob", "url", "base64", "empty"}
    /\ aReaderOk \in BOOLEAN
    /\ aReaderOk \/ (aImage = "blob" /\ ~aUseApi)
    /\ IF aUseApi
        THEN /\ aResponses = [t \in AnalyzerTypes |-> BackendResponse(FALSE, "", NoMeta, None)]
             /\ aApiResponse \in ApiResponses
        ELSE /\ aResponses \in [AnalyzerTypes ->
                                    UNION {BackendResponses(t) : t \in AnalyzerTypes}]
             /\ \A t \in AnalyzerTypes : aResponses[t] \in BackendResponses(t)
             \* SupabaseAnalyzer posts the input to the edge function, which
             \* answers 400 exactly when it carries no image reference
             /\ aResponses["supabase"].error = "Supabase analyzer failed: 400" =>
                    aImage = "empty"
             /\ aImage = "empty" => ~aResponses["supabase"].ok
             /\ aApiResponse = BackendResponse(FALSE, "", NoMeta, None)
    /\ aPc = "idle"
    /\ aInput = None
    /\ aOutcome = ImagePending

\* lines 35-37, 53-78: the API endpoint is called (FormData for a blob, the
\* converted input as JSON for a string)
CallApi ==
    /\ aPc = "idle"
    /\ aUseApi
    /\ aInput' = IF aImage = "blob" THEN None ELSE Some(convertImageToInput(aImage))
    /\ aPc' = "api"
    /\ UNCHANGED <<aUseApi, aImage, aReaderOk, aResponses, aApiResponse, aOutcome>>
    /\ UNCHANGED chainVars
    /\ ImageFrame

\* lines 64-83: fetch rejects or the response is not OK; analyzeViaAPI throws
\* and analyzeImage rejects
ApiFails ==
    /\ aPc = "api"
    /\ ~aApiResponse.ok
    /\ aOutcome' = ImageRejected(aApiResponse.error)
    /\ aPc' = "done"
    /\ UNCHANGED <<aUseApi, aImage, aReaderOk, aResponses, aApiResponse, aInput>>
    /\ UNCHANGED chainVars
    /\ ImageFrame

\* lines 85-88 and 44-45: the legacy JSON is converted and mapped
ApiResolves ==
    /\ aPc = "api"
    /\ aApiResponse.ok
    /\ LET out == convertLegacyToOutput(Val(aApiResponse.item), aApiResponse.meta)
       IN  aOutcome' = ImageResolved(mapToResult(out.item, out.meta))
    /\ aPc' = "done"
    /\ UNCHANGED <<aUseApi, aImage, aReaderOk, aResponses, aApiResponse, aInput>>
    /\ UNCHANGED chainVars
    /\ ImageFrame

\* lines 40-41: the image is converted and analyzeViaDirectAnalyzers is
\* called with the input
ConvertResolves ==
    /\ aPc = "idle"
    /\ ~aUseApi
    /\ aImage = "blob" => aReaderOk
    /\ aInput' = Some(convertImageToInput(aImage))
    /\ aPc' = "chain"
    /\ pc' = "idle"
    /\ UNCHANGED <<aUseApi, aImage, aReaderOk, aResponses, aApiResponse, aOutcome>>
    /\ UNCHANGED <<env, config, fallbackChain, idx, usedAnalyzers, lastError, analysis,
                   backendMeta, inFlight, callLog, attemptLog, outcome>>
    /\ ImageFrame

\* lines 40, 173: FileReader fails, convertImageToInput rejects
ConvertRejects ==
    /\ aPc = "idle"
    /\ ~aUseApi
    /\ aImage = "blob"
    /\ ~aReaderOk
    /\ aOutcome' = ImageRejected("FileReader error")
    /\ aPc' = "done"
    /\ UNCHANGED <<aUseApi, aImage, aReaderOk, aResponses, aApiResponse, aInput>>
    /\ UNCHANGED chainVars
    /\ ImageFrame

\* the backend called answers as aResponses says
answersAsGiven_Any(type) == TRUE

answersAsGiven(type) ==
    IF aResponses[type].ok
        THEN /\ attemptLog'[Len(attemptLog')][2] = "resolved"
             /\ backendMeta' = aResponses[type].meta
        ELSE /\ attemptLog'[Len(attemptLog')][2] = "rejected"
             /\ attemptLog'[Len(attemptLog')][3] = aResponses[type].error

\* line 41: analyzeViaDirectAnalyzers runs
RunChain ==
    /\ aPc = "chain"
    /\ \/ BeginAnalyze
       \/ ResolveThrows
       \/ InvokeAnalyze
       \/ (AnalyzeResolves /\ answersAsGiven(fallbackChain[idx]))
       \/ (AnalyzeRejects /\ answersAsGiven(fallbackChain[idx]))
       \/ ThrowAllFailed
       \/ ReturnAnalysis

\* lines 41, 44-45: the chain returned, its AnalyzeOutput is mapped
MapChainResult ==
    /\ aPc = "chain"
    /\ pc = "done"
    /\ outcome.kind = "returned"
    /\ LET a == Val(outcome.value)
       IN  aOutcome' = ImageResolved(mapToResult(aResponses[a.source].item, a.meta))
    /\ aPc' = "done"
    /\ UNCHANGED <<aUseApi, aImage, aReaderOk, aResponses, aApiResponse, aInput>>
    /\ UNCHANGED chainVars
    /\ ImageFrame

\* line 41: the chain threw, analyzeImage rejects with its error
ChainThrows ==
    /\ aPc = "chain"
    /\ pc = "done"
    /\ outcome.kind = "thrown"
    /\ aOutcome' = ImageRejected(outcome.lastErrorText)
    /\ aPc' = "done"
    /\ UNCHANGED <<aUseApi, aImage, aReaderOk, aResponses, aApiResponse, aInput>>
    /\ UNCHANGED chainVars
    /\ ImageFrame

NextImage ==
    \/ CallApi
    \/ ApiFails
    \/ ApiResolves
    \/ ConvertResolves
    \/ ConvertRejects
    \/ RunChain
    \/ MapChainResult
    \/ ChainThrows

SpecImage == InitImage /\ [][NextImage]_vars

(***************************************************************************)
(* src/index.ts: evaluation of the module and the lazy proxies             *)
(***************************************************************************)
\* getConfig lines 363-394: the Supabase part of the configuration (apiUrl
\* is always set)
getConfig(e) ==
    [supabaseUrl |-> e["NEXT_PUBLIC_SUPABASE_URL"] \/ e["SUPABASE_URL"],
     supabaseKey |-> e["NEXT_PUBLIC_SUPABASE_ANON_KEY"] \/ e["SUPABASE_ANON_KEY"]]

\* FoodLogger constructor lines 17-22: throws without both credentials
FoodLoggerThrows(cfg) == ~cfg.supabaseUrl \/ ~cfg.supabaseKey

\* property accesses made on the proxies after the module was loaded
MaxAccesses == 3

InitLoad ==
    /\ AppIdle
    /\ ChainIdle
    /\ NormIdle
    /\ SanIdle
    /\ MacIdle
    /\ EdgeIdle
    /\ ImageIdle
    /\ lEnv \in Envs
    /\ lPc = "unloaded"
    /\ lConfig = FALSE
    /\ lAnalyzer = FALSE
    /\ lLogger = FALSE
    /\ lConstructed = <<>>
    /\ lAccesses = <<>>

\* index.ts lines 55-170 evaluated with credentials present: the proxies are
\* defined, and line 170 `export const forki = new ForkiFeatures()` runs the
\* constructor of lines 140-166, which builds a FoodAnalyzer, a FoodLogger
\* and a CameraCapture
LoadModule ==
    /\ lPc = "unloaded"
    /\ ~FoodLoggerThrows(getConfig(lEnv))
    /\ lConfig' = TRUE
    /\ lConstructed' = lConstructed \o <<<<"FoodAnalyzer", "forki">>, <<"FoodLogger", "forki">>,
                                          <<"CameraCapture", "forki">>>>
    /\ lPc' = "loaded"
    /\ UNCHANGED <<lEnv, lAnalyzer, lLogger, lAccesses>>
    /\ LoadFrame

\* the same without credentials: new FoodLogger throws inside the
\* ForkiFeatures constructor (line 159), so evaluating the module throws
LoadModuleThrows ==
    /\ lPc = "unloaded"
    /\ FoodLoggerThrows(getConfig(lEnv))
    /\ lConfig' = TRUE
    /\ lConstructed' = Append(lConstructed, <<"FoodAnalyzer", "forki">>)
    /\ lPc' = "failed"
    /\ UNCHANGED <<lEnv, lAnalyzer, lLogger, lAccesses>>
    /\ LoadFrame

\* lines 69-83: a property of foodAnalyzer is read
AccessFoodAnalyzer ==
    /\ lPc = "loaded"
    /\ Len(lAccesses) < MaxAccesses
    /\ lAnalyzer' = TRUE
    /\ lConstructed' = IF lAnalyzer THEN lConstructed
                       ELSE Append(lConstructed, <<"FoodAnalyzer", "foodAnalyzer">>)
    /\ lAccesses' = Append(lAccesses, <<"foodAnalyzer", "ok">>)
    /\ UNCHANGED <<lEnv, lPc, lConfig, lLogger>>
    /\ LoadFrame

\* lines 85-119: a property of foodLogger is read; without credentials the
\* get trap throws (lines 101-109)
AccessFoodLogger ==
    /\ lPc = "loaded"
    /\ Len(lAccesses) < MaxAccesses
    /\ IF ~lLogger /\ FoodLoggerThrows(getConfig(lEnv))
        THEN /\ lAccesses' = Append(lAccesses, <<"foodLogger", "threw">>)
             /\ UNCHANGED <<lLogger, lConstructed>>
        ELSE /\ lLogger' = TRUE
             /\ lConstructed' = IF lLogger THEN lConstructed
                                ELSE Append(lConstructed, <<"FoodLogger", "foodLogger">>)
             /\ lAccesses' = Append(lAccesses, <<"foodLogger", "ok">>)
    /\ UNCHANGED <<lEnv, lPc, lConfig, lAnalyzer>>
    /\ LoadFrame

NextLoad ==
    \/ LoadModule
    \/ LoadModuleThrows
    \/ AccessFoodAnalyzer
    \/ AccessFoodLogger

SpecLoad == InitLoad /\ [][NextLoad]_vars

(***************************************************************************)
(* AppProvider: the mount effects, the load of the food logs, addFoodLog   *)
(***************************************************************************)
\* demoReducer, case ADD_FOOD_LOG (lines 115-126)
addToState(st, log) == [st EXCEPT !.foodLogs = Append(@, log)]

\* logs.forEach(log => dispatch({type: 'ADD_FOOD_LOG', payload: log}))
RECURSIVE addAllToState(_, _)
addAllToState(st, logs) ==
    IF logs = <<>> THEN st ELSE addAllToState(addToState(st, Head(logs)), Tail(logs))

\* addFoodLog calls made after the mount
MaxAdds == 2

\* the id the database gives the n-th saved log, and the Date.now() id of a
\* log kept locally
SavedId(n) == <<"db", n>>
LocalId(n) == <<"local", n>>

\* what the previous session may have left in localStorage
PersistedStates ==
    {None, Some(initialState), Some(DemoState(<<<<"db", 0>>>>, TRUE)),
     Some(DemoState(<<<<"local", 0>>>>, TRUE))}

InitApp ==
    /\ ChainIdle
    /\ NormIdle
    /\ SanIdle
    /\ MacIdle
    /\ EdgeIdle
    /\ ImageIdle
    /\ LoadIdle
    /\ wPc = "unmounted"
    /\ wState = initialState
    /\ wPersisted \in PersistedStates
    /\ wStorage = wPersisted
    /\ wHasLoaded = FALSE
    /\ wRemote \in {<<>>, <<<<"db", 0>>>>}
    /\ wLoad = DbCall("idle", FALSE, <<>>)
    /\ wAdds = <<>>
    /\ wFallback = None

\* lines 185-227, first effect: the ref is set and getFoodLogs is called; the
\* function suspends at the await
LoadEffect ==
    /\ wPc = "unmounted"
    /\ IF wHasLoaded
        THEN UNCHANGED <<wHasLoaded, wLoad>>
        ELSE /\ wHasLoaded' = TRUE
             /\ wLoad' = DbCall("requested", FALSE, <<>>)
    /\ wPc' = "effect2"
    /\ UNCHANGED <<wState, wStorage, wPersisted, wRemote, wAdds, wFallback>>
    /\ AppFrame

\* lines 229-242, second effect: skipped when the ref is set, else the saved
\* state is dispatched (the state of this render stays the initial one)
StorageEffect ==
    /\ wPc = "effect2"
    /\ IF ~wHasLoaded /\ IsSome(wStorage)
        THEN wState' = Val(wStorage)
        ELSE UNCHANGED wState
    /\ wPc' = "effect3"
    /\ UNCHANGED <<wStorage, wPersisted, wHasLoaded, wRemote, wLoad, wAdds, wFallback>>
    /\ AppFrame

\* lines 244-247, third effect on mount: the state of the first render, which
\* is initialState, is written to localStorage; a dispatch made by the second
\* effect is rendered next and written by the effect's re-run
SaveEffect ==
    /\ wPc = "effect3"
    /\ wStorage' = Some(wState)
    /\ wPc' = "running"
    /\ UNCHANGED <<wState, wPersisted, wHasLoaded, wRemote, wLoad, wAdds, wFallback>>
    /\ AppFrame

\* the database answers getFoodLogs with the rows it holds at that moment, or
\* the call fails
LoadServed ==
    /\ wLoad.status = "requested"
    /\ \/ wLoad' = DbCall("served", TRUE, wRemote)
       \/ wLoad' = DbCall("served", FALSE, <<>>)
    /\ UNCHANGED <<wPc, wState, wStorage, wPersisted, wHasLoaded, wRemote, wAdds, wFallback>>
    /\ AppFrame

\* lines 196-209: the logs are dispatched one by one; the re-render runs the
\* third effect (lines 245-247) on the new state
LoadResolves ==
    /\ wPc = "running"
    /\ wLoad.status = "served"
    /\ wLoad.ok
    /\ wState' = addAllToState(wState, wLoad.logs)
    /\ wStorage' = Some(wState')
    /\ wLoad' = [wLoad EXCEPT !.status = "settled"]
    /\ UNCHANGED <<wPc, wPersisted, wHasLoaded, wRemote, wAdds, wFallback>>
    /\ AppFrame

\* lines 210-223: the catch block reads localStorage and dispatches
\* LOAD_FROM_STORAGE with what it holds
LoadRejects ==
    /\ wPc = "running"
    /\ wLoad.status = "served"
    /\ ~wLoad.ok
    /\ IF IsSome(wStorage)
        THEN /\ wState' = Val(wStorage)
             /\ wFallback' = wStorage
        ELSE UNCHANGED <<wState, wFallback>>
    /\ wStorage' = IF IsSome(wStorage) THEN Some(wState') ELSE wStorage
    /\ wLoad' = [wLoad EXCEPT !.status = "settled"]
    /\ UNCHANGED <<wPc, wPersisted, wHasLoaded, wRemote, wAdds>>
    /\ AppFrame

\* lines 251-258: addFoodLog is called, createFoodLog is awaited
addFoodLog ==
    /\ wPc = "running"
    /\ Len(wAdds) < MaxAdds
    /\ wAdds' = Append(wAdds, DbCall("requested", FALSE, <<>>))
    /\ UNCHANGED <<wPc, wState, wStorage, wPersisted, wHasLoaded, wRemote, wLoad, wFallback>>
    /\ AppFrame

\* the database inserts the row and returns it with its id, or the call fails
SaveServed ==
    /\ \E n \in 1..Len(wAdds) :
         /\ wAdds[n].status = "requested"
         /\ \/ /\ wAdds' = [wAdds EXCEPT ![n] = DbCall("served", TRUE, <<SavedId(n)>>)]
               /\ wRemote' = Append(wRemote, SavedId(n))
            \/ /\ wAdds' = [wAdds EXCEPT ![n] = DbCall("served", FALSE, <<LocalId(n)>>)]
               /\ UNCHANGED wRemote
    /\ UNCHANGED <<wPc, wState, wStorage, wPersisted, wHasLoaded, wLoad, wFallback>>
    /\ AppFrame

\* lines 260-264 (saved) and 265-277 (failed: the log is kept locally under a
\* Date.now() id and the error is re-thrown); the re-render runs the third
\* effect on the new state
AddSettles ==
    /\ \E n \in 1..Len(wAdds) :
         /\ wAdds[n].status = "served"
         /\ wState' = addToState(wState, wAdds[n].logs[1])
         /\ wAdds' = [wAdds EXCEPT ![n].status = IF wAdds[n].ok THEN "returned" ELSE "thrown"]
    /\ wStorage' = Some(wState')
    /\ UNCHANGED <<wPc, wPersisted, wHasLoaded, wRemote, wLoad, wFallback>>
    /\ AppFrame

NextApp ==
    \/ LoadEffect
    \/ StorageEffect
    \/ SaveEffect
    \/ LoadServed
    \/ LoadResolves
    \/ LoadRejects
    \/ addFoodLog
    \/ SaveServed
    \/ AddSettles

SpecApp == InitApp /\ [][NextApp]_vars

(***************************************************************************)
(* The normalizer applied to what a backend supplied                       *)
(***************************************************************************)
LabelInputs == {None, Some(<<>>), Some(<<"a", "p", "p", "l", "e">>), Some(<<"G", "r", "i", "l", "l", "e", "d", " ", "C", "h", "i", "c", "k", "e", "n">>), Some(<<"M", "y", "s", "t", "e", "r", "y">>)}

ConfidenceInputs ==
    {ConfMissing, ConfInvalid} \cup {ConfNumber(v) : v \in {-50, 0, 1, 73, 100, 150}}

\* tenths of a kcal: absent, 0, 15, 19.6, 39.6, 40, 100, 601
CalorieInputs == {None} \cup {Some(v) : v \in {0, 150, 196, 396, 400, 1000, 6010}}

\* hundredths of a gram
MacroInputs ==
    {None, Some(Macros(0, 0, 0)), Some(Macros(487, 0, 0)), Some(Macros(500, 0, 0)),
     Some(Macros(125, 250, 111)), Some(Macros(3000, 0, 2000))}

MetaInputs == {NoMeta, Meta(TRUE, <<"supabase", "openai">>, "true")}

InitNorm ==
    /\ LoadIdle
    /\ AppIdle
    /\ ImageIdle
    /\ ChainIdle
    /\ SanIdle
    /\ MacIdle
    /\ EdgeIdle
    /\ nPath \in {"direct", "api"}
    /\ nItem \in {None} \cup
            {Some(Item(l, c, k, m)) : l \in LabelInputs, c \in ConfidenceInputs,
                                      k \in CalorieInputs, m \in MacroInputs}
    /\ nPath = "api" => IsSome(nItem)
    /\ nMeta \in MetaInputs
    /\ nResult = None

\* analyzeImage lines 38-45: the AnalyzeOutput of the chain is mapped
NormalizeDirect ==
    /\ nPath = "direct"
    /\ nResult = None
    /\ nResult' = Some(mapToResult(nItem, nMeta))
    /\ UNCHANGED <<nPath, nItem, nMeta>>
    /\ NormFrame

\* analyzeImage lines 35-37, 44-45 and analyzeViaAPI lines 85-88: the legacy
\* JSON is converted, then mapped
NormalizeViaAPI ==
    /\ nPath = "api"
    /\ nResult = None
    /\ LET out == convertLegacyToOutput(Val(nItem), nMeta)
       IN  nResult' = Some(mapToResult(out.item, out.meta))
    /\ UNCHANGED <<nPath, nItem, nMeta>>
    /\ NormFrame

NextNorm == NormalizeDirect \/ NormalizeViaAPI

SpecNorm == InitNorm /\ [][NextNorm]_vars

(***************************************************************************)
(* analyze_food/index.ts: sanitizeLabel                                    *)
(***************************************************************************)
\* raw.replace(/\.[a-zA-Z0-9]+$/, ""): a dot followed by letters and digits
\* up to the end of the string is cut off
stripExtension(raw) ==
    LET dots == {i \in 1..(Len(raw) - 1) :
                    /\ raw[i] = "."
                    /\ \A j \in (i + 1)..Len(raw) : IsAlnum(raw[j])}
    IN  IF dots = {} THEN raw
        ELSE SubSeq(raw, 1, (CHOOSE i \in dots : \A j \in dots : i <= j) - 1)

IsSeparator(c) == c \in {"_", "-"}

\* .replace(/[_-]+/g, " "): every run of '_' and '-' becomes one space
RECURSIVE collapseSeparators(_)
collapseSeparators(str) ==
    IF str = <<>> THEN <<>>
    ELSE IF IsSeparator(str[1])
        THEN IF Len(str) > 1 /\ IsSeparator(str[2])
                THEN collapseSeparators(Tail(str))
                ELSE <<" ">> \o collapseSeparators(Tail(str))
        ELSE <<str[1]>> \o collapseSeparators(Tail(str))

UnknownFood == <<"u", "n", "k", "n", "o", "w", "n", "_", "f", "o", "o", "d">>

sanitizeLabel(raw) ==
    LET cleaned == trim(collapseSeparators(stripExtension(raw)))
    IN  IF Len(cleaned) > 0 THEN toLowerCase(cleaned) ELSE UnknownFood

MaxLabelLen == 4

LabelAlphabet == {"a", "B", ".", "_", "-", " "}

RawLabels == UNION {[1..n -> LabelAlphabet] : n \in 0..MaxLabelLen}

InitSan ==
    /\ LoadIdle
    /\ AppIdle
    /\ ImageIdle
    /\ ChainIdle
    /\ NormIdle
    /\ MacIdle
    /\ EdgeIdle
    /\ sRaw \in RawLabels
    /\ sOnce = None
    /\ sTwice = None

\* a raw label is sanitized (callClassifier line 370)
SanitizeOnce ==
    /\ sOnce = None
    /\ sOnce' = Some(sanitizeLabel(sRaw))
    /\ UNCHANGED <<sRaw, sTwice>>
    /\ SanFrame

\* an already sanitized label is sanitized again
SanitizeAgain ==
    /\ IsSome(sOnce)
    /\ sTwice = None
    /\ sTwice' = Some(sanitizeLabel(Val(sOnce)))
    /\ UNCHANGED <<sRaw, sOnce>>
    /\ SanFrame

NextSan == SanitizeOnce \/ SanitizeAgain

SpecSan == InitSan /\ [][NextSan]_vars

(***************************************************************************)
(* analyze_food/priors.ts getPriorsForLabel and index.ts calculateMacros   *)
(***************************************************************************)
\* A food_priors row: label and the per-100 g macro columns (tenths of a
\* gram; <<>> is SQL NULL).
PriorsRow(label, protein, carbs, fat, fiber) ==
    [label |-> label, protein_per_100g |-> protein, carbs_per_100g |-> carbs,
     fat_per_100g |-> fat, fiber_per_100g |-> fiber]

\* .ilike("label", label): case-insensitive LIKE; in the pattern '_' stands
\* for any one character and '%' for any run of characters
RECURSIVE ilike(_, _)
ilike(str, pattern) ==
    IF pattern = <<>> THEN str = <<>>
    ELSE IF pattern[1] = "%"
        THEN ilike(str, Tail(pattern)) \/ (str # <<>> /\ ilike(Tail(str), pattern))
        ELSE /\ str # <<>>
             /\ (pattern[1] = "_" \/ toLowerCase(<<pattern[1]>>) = toLowerCase(<<str[1]>>))
             /\ ilike(Tail(str), Tail(pattern))

\* .maybeSingle(): data is the row when exactly one row matches, else null
maybeSingle(rows) == IF Cardinality(rows) = 1 THEN Some(CHOOSE r \in rows : TRUE) ELSE None

\* getPriorsForLabel: <<>> is null; macros is <<>> unless protein, carbs and
\* fat are all non-null
getPriorsForLabel(store, label) ==
    LET data == maybeSingle({r \in store : ilike(r.label, label)})
    IN  IF ~IsSome(data) THEN None
        ELSE LET d == Val(data)
             IN  Some([macros |->
                        IF /\ IsSome(d.protein_per_100g)
                           /\ IsSome(d.carbs_per_100g)
                           /\ IsSome(d.fat_per_100g)
                            THEN Some([proteinPer100g |-> Val(d.protein_per_100g),
                                       carbsPer100g |-> Val(d.carbs_per_100g),
                                       fatPer100g |-> Val(d.fat_per_100g),
                                       fiberPer100g |-> d.fiber_per_100g])
                            ELSE None])

MacroResult(p, c, f, fiber) == [proteinG |-> p, carbsG |-> c, fatG |-> f, fiberG |-> fiber]

\* lines 442-450: Math.round(per100g * (weightGrams / 100) * 10) / 10, in
\* tenths of a gram from tenths of a gram per 100 g and tenths of a gram
priorsTier(pm, weightGrams) ==
    MacroResult(RoundDiv(pm.proteinPer100g * weightGrams, 1000),
                RoundDiv(pm.carbsPer100g * weightGrams, 1000),
                RoundDiv(pm.fatPer100g * weightGrams, 1000),
                IF IsSome(pm.fiberPer100g) /\ Val(pm.fiberPer100g) # 0
                    THEN Some(RoundDiv(Val(pm.fiberPer100g) * weightGrams, 1000))
                    ELSE None)

\* the ratios with the carb-dominant category tested before the
\* protein-dominant one
macroRatios_CarbFirst(label) ==
    LET normalizedLabel == toLowerCase(label)
    IN  IF \/ includes(normalizedLabel, <<"r", "i", "c", "e">>)
           \/ includes(normalizedLabel, <<"p", "a", "s", "t", "a">>)
           \/ includes(normalizedLabel, <<"b", "r", "e", "a", "d">>)
            THEN [proteinRatio |-> 10, carbsRatio |-> 75, fatRatio |-> 15]
        ELSE IF \/ includes(normalizedLabel, <<"c", "h", "i", "c", "k", "e", "n">>)
                \/ includes(normalizedLabel, <<"b", "e", "e", "f">>)
                \/ includes(normalizedLabel, <<"f", "i", "s", "h">>)
                \/ includes(normalizedLabel, <<"m", "e", "a", "t">>)
            THEN [proteinRatio |-> 30, carbsRatio |-> 0, fatRatio |-> 20]
        ELSE IF \/ includes(normalizedLabel, <<"s", "a", "l", "a", "d">>)
                \/ includes(normalizedLabel, <<"v", "e", "g", "e", "t", "a", "b", "l", "e">>)
                \/ includes(normalizedLabel, <<"b", "r", "o", "c", "c", "o", "l", "i">>)
            THEN [proteinRatio |-> 20, carbsRatio |-> 60, fatRatio |-> 20]
        ELSE [proteinRatio |-> 15, carbsRatio |-> 55, fatRatio |-> 30]

\* lines 455-473: the ratios, in percent, of the first category that matches
macroRatios(label) ==
    LET normalizedLabel == toLowerCase(label)
    IN  IF \/ includes(normalizedLabel, <<"c", "h", "i", "c", "k", "e", "n">>)
           \/ includes(normalizedLabel, <<"b", "e", "e", "f">>)
           \/ includes(normalizedLabel, <<"f", "i", "s", "h">>)
           \/ includes(normalizedLabel, <<"m", "e", "a", "t">>)
            THEN [proteinRatio |-> 30, carbsRatio |-> 0, fatRatio |-> 20]
        ELSE IF \/ includes(normalizedLabel, <<"r", "i", "c", "e">>)
                \/ includes(normalizedLabel, <<"p", "a", "s", "t", "a">>)
                \/ includes(normalizedLabel, <<"b", "r", "e", "a", "d">>)
            THEN [proteinRatio |-> 10, carbsRatio |-> 75, fatRatio |-> 15]
        ELSE IF \/ includes(normalizedLabel, <<"s", "a", "l", "a", "d">>)
                \/ includes(normalizedLabel, <<"v", "e", "g", "e", "t", "a", "b", "l", "e">>)
                \/ includes(normalizedLabel, <<"b", "r", "o", "c", "c", "o", "l", "i">>)
            THEN [proteinRatio |-> 20, carbsRatio |-> 60, fatRatio |-> 20]
        ELSE [proteinRatio |-> 15, carbsRatio |-> 55, fatRatio |-> 30]

\* lines 476-480: Math.round((calories * ratio / kcalPerGram) * 10) / 10, in
\* tenths of a gram from tenths of a kcal and percent
ratioTier(label, calories) ==
    LET r == macroRatios(label)
    IN  MacroResult(RoundDiv(calories * r.proteinRatio, 400),
                    RoundDiv(calories * r.carbsRatio, 400),
                    RoundDiv(calories * r.fatRatio, 900),
                    None)

\* calculateMacros with the ratio tier tried before the priors tier
calculateMacros_RatioFirst(store, label, weightGrams, calories) ==
    LET priors == getPriorsForLabel(store, label)
    IN  IF weightGrams > 0 /\ calories > 0
            THEN Some(ratioTier(label, calories))
        ELSE IF IsSome(priors) /\ IsSome(Val(priors).macros) /\ weightGrams > 0
            THEN Some(priorsTier(Val(Val(priors).macros), weightGrams))
        ELSE None

\* calculateMacros (lines 435-485); <<>> is undefined
calculateMacros(store, label, weightGrams, calories) ==
    LET priors == getPriorsForLabel(store, label)
    IN  IF IsSome(priors) /\ IsSome(Val(priors).macros) /\ weightGrams > 0
            THEN Some(priorsTier(Val(Val(priors).macros), weightGrams))
        ELSE IF weightGrams > 0 /\ calories > 0
            THEN Some(ratioTier(label, calories))
        ELSE None

\* rows the food_priors table may hold
PriorsRows ==
    {PriorsRow(<<"r", "i", "c", "e">>, Some(27), Some(282), Some(3), Some(4)),
     PriorsRow(<<"R", "i", "c", "e">>, Some(30), Some(250), Some(10), None),
     PriorsRow(<<"c", "h", "i", "c", "k", "e", "n", " ", "b", "r", "e", "a", "s", "t">>, None, None, None, None),
     PriorsRow(<<"a", "p", "p", "l", "e">>, Some(3), Some(138), Some(2), Some(0))}

MacroLabels == {<<"r", "i", "c", "e">>, <<"R", "I", "C", "E">>, <<"c", "h", "i", "c", "k", "e", "n", " ", "b", "r", "e", "a", "s", "t">>, <<"a", "p", "p", "l", "e">>, <<"g", "r", "e", "e", "n", " ", "s", "a", "l", "a", "d">>, <<"t", "o", "a", "s", "t">>,
               <<"c", "h", "i", "c", "k", "e", "n", " ", "r", "i", "c", "e">>,
               <<"F", "i", "s", "h", " ", "S", "a", "l", "a", "d">>}

\* tenths of a gram: 0, 92.4 g (231 kcal / 2.5), 150 g
MacroWeights == {0, 924, 1500}

\* tenths of a kcal: 0, 231 kcal
MacroCalories == {0, 2310}

InitMac ==
    /\ LoadIdle
    /\ AppIdle
    /\ ImageIdle
    /\ ChainIdle
    /\ NormIdle
    /\ SanIdle
    /\ EdgeIdle
    /\ foodPriors \in SUBSET PriorsRows
    /\ mLabel \in MacroLabels
    /\ mWeightGrams \in MacroWeights
    /\ mCalories \in MacroCalories
    /\ mResult = None

\* const macros = await calculateMacros(label, estimatedWeight, calories)
CalculateMacros ==
    /\ mResult = None
    /\ mResult' = Some(calculateMacros(foodPriors, mLabel, mWeightGrams, mCalories))
    /\ UNCHANGED <<foodPriors, mLabel, mWeightGrams, mCalories>>
    /\ MacFrame

NextMac == CalculateMacros

SpecMac == InitMac /\ [][NextMac]_vars

(***************************************************************************)
(* analyze_food/index.ts: the serve handler, one step per suspension point *)
(***************************************************************************)
\* jsonResponse(body, status): an error body, or an AnalyzerResponse with
\* its items
Response(status, error, details, items) ==
    [status |-> status, error |-> error, details |-> details, items |-> items]

\* what detectImageType returns: parsed.image_type and parsed.restaurant_name
\* are passed on unchecked, so imageType may be undefined and restaurantName
\* may be missing or empty (hasName FALSE)
Detection(imageType, hasName) == [imageType |-> imageType, hasName |-> hasName]

DetectionOutputs ==
    {Detection(t, n) : t \in {"packaged", "restaurant", "prepared", "undefined"},
                       n \in BOOLEAN}

\* the throw sites of detectImageType after the API key check (lines 548-563)
DetectionErrors ==
    {"TypeError: fetch failed",
     "Error: Image type detection failed: 500",
     "Error: Image type detection response missing output",
     "SyntaxError: Unexpected token"}

\* the throw sites of the three path handlers after the API key check; in
\* callClassifier also parseClassifierJson and sanitizeLabel(undefined)
PathErrors(handler) ==
    {"TypeError: fetch failed", "SyntaxError: Unexpected token"} \cup
    (CASE handler = "label" ->
            {"Error: Nutrition label extraction failed: 500",
             "Error: Nutrition label response missing output"}
       [] handler = "menu" ->
            {"Error: Restaurant menu lookup failed: 500",
             "Error: Restaurant menu response missing output"}
       [] OTHER ->
            {"Error: Classifier request failed: 500",
             "Error: Classifier response missing output text",
             "Error: Classifier output was not JSON",
             "TypeError: Cannot read properties of undefined (reading 'replace')"})

\* lines 109, 144, 183: the route taken for a detection result
routePath(d) ==
    IF d.imageType = "packaged" THEN "label"
    ELSE IF d.imageType = "restaurant" /\ d.hasName THEN "menu"
    ELSE "geometry"

\* the external call each path handler makes
handlerCall(handler) ==
    CASE handler = "label" -> "extractNutritionLabel"
      [] handler = "menu" -> "lookupRestaurantMenu"
      [] OTHER -> "callClassifier"

\* What a path handler returns.  label: a string or <<>> (undefined);
\* calories: tenths of a kcal or <<>>; weight: tenths of a gram or <<>>;
\* kcalPerG: hundredths of a kcal per gram; densityGML: hundredths of a gram
\* per mL; macros: tenths of a gram or <<>>.
Payload(label, calories, weight, densityGML, kcalPerG, macros) ==
    [label |-> label, calories |-> calories, weight |-> weight,
     densityGML |-> densityGML, kcalPerG |-> kcalPerG, macros |-> macros]

\* extractNutritionLabel lines 661-669: parsed.label and parsed.calories are
\* passed on unchecked
NutritionLabelOutputs ==
    {Payload(l, c, None, 0, 0, None) :
        l \in {None, Some(<<>>), Some(<<"O", "a", "t", "_", "B", "a", "r">>), Some(<<"r", "i", "c", "e">>)},
        c \in {None, Some(0), Some(2310), Some(-500)}}

\* lookupRestaurantMenu lines 749-755: parsed.item_name and parsed.calories
\* are passed on unchecked
MenuOutputs ==
    {Payload(l, c, None, 0, 0, None) :
        l \in {None, Some(<<"B", "u", "r", "r", "i", "t", "o", " ", "B", "o", "w", "l">>), Some(<<"r", "i", "c", "e">>)},
        c \in {None, Some(0), Some(2310), Some(-500)}}

\* parseClassifierJson: the parsed output of the classifier.  total_calories
\* in tenths of a kcal, estimated_weight_g in tenths of a gram, macros in
\* hundredths of a gram.
ParsedClassifierOutputs ==
    {Payload(Some(l), c, w, d, k, m) :
        l \in {<<>>, <<"F", "r", "i", "e", "d", "_", "R", "i", "c", "e", ".", "j", "p", "g">>, <<"r", "i", "c", "e">>, <<"c", "h", "i", "c", "k", "e", "n", " ", "b", "r", "e", "a", "s", "t">>},
        c \in {None, Some(0), Some(2314)},
        w \in {None, Some(1504), Some(-1504)},
        d \in {85},
        k \in {130},
        m \in {None, Some(Macros(487, 0, 0)), Some(Macros(3010, 4500, 1249)),
                Some(Macros(-1000, 0, 0)), Some(Macros(0, 0, 0))}}

\* callClassifier lines 369-385: the label is sanitized, total_calories and
\* estimated_weight_g are rounded to whole numbers (0 and absent give
\* undefined), the macros are rounded to 1 decimal
callClassifier(parsed) ==
    Payload(Some(sanitizeLabel(Val(parsed.label))),
            IF IsSome(parsed.calories) /\ Val(parsed.calories) # 0
                THEN Some(10 * RoundDiv(Val(parsed.calories), 10)) ELSE None,
            IF IsSome(parsed.weight) /\ Val(parsed.weight) # 0
                THEN Some(10 * RoundDiv(Val(parsed.weight), 10)) ELSE None,
            parsed.densityGML,
            parsed.kcalPerG,
            IF IsSome(parsed.macros)
                THEN LET m == Val(parsed.macros)
                     IN  Some(MacroResult(RoundDiv(m.proteinG, 10), RoundDiv(m.carbsG, 10),
                                          RoundDiv(m.fatG, 10), None))
                ELSE None)

PathOutputs(handler) ==
    CASE handler = "label" -> NutritionLabelOutputs
      [] handler = "menu" -> MenuOutputs
      [] OTHER -> {callClassifier(parsed) : parsed \in ParsedClassifierOutputs}

PackagedFood == <<"p", "a", "c", "k", "a", "g", "e", "d", " ", "f", "o", "o", "d">>

\* line 207: classifier.estimatedWeightG ?? 180, in tenths of a gram
DefaultPortionGrams == 1800

\* lines 113, 152, 187: the label of the item
itemLabel(handler, p) ==
    CASE handler = "label" ->
            IF IsSome(p.label) /\ Val(p.label) # <<>> THEN p.label ELSE Some(PackagedFood)
      [] handler = "menu" -> p.label
      [] OTHER -> Some(toLowerCase(trim(Val(p.label))))

\* lines 117, 156: calories > 0 ? calories / 2.5 : 0 (tenths of a gram; exact
\* for calories that are multiples of 0.5 kcal); line 207 on the geometry path
estimatedWeight(handler, p) ==
    IF handler = "geometry"
        THEN IF IsSome(p.weight) THEN Val(p.weight) ELSE DefaultPortionGrams
        ELSE IF IsSome(p.calories) /\ Val(p.calories) > 0
                THEN (2 * Val(p.calories)) \div 5
                ELSE 0

\* lines 212-214: the calories handed to calculateMacros on the geometry
\* path (tenths of a kcal, a whole number of kcal)
estimatedCalories(p) ==
    IF IsSome(p.calories) /\ Val(p.calories) # 0
        THEN 10 * RoundDiv(Val(p.calories), 10)
        ELSE 10 * RoundDiv(estimatedWeight("geometry", p) * p.kcalPerG, 1000)

\* lines 118, 157, 210-216: does the handler call calculateMacros
needsMacros(handler, p) == handler # "geometry" \/ ~IsSome(p.macros)

\* the calories argument of calculateMacros; undefined compares false with
\* > 0 and is carried as 0
macroCalories(handler, p) ==
    IF handler = "geometry" THEN estimatedCalories(p)
    ELSE IF IsSome(p.calories) THEN Val(p.calories) ELSE 0

\* line 455: label.toLowerCase() on an undefined label throws
calculateMacrosThrows(store, handler, p) ==
    /\ ~IsSome(itemLabel(handler, p))
    /\ estimatedWeight(handler, p) > 0
    /\ macroCalories(handler, p) > 0

\* lines 118, 157, 210-216: the macros of the item
itemMacros(store, handler, p) ==
    IF ~needsMacros(handler, p) THEN p.macros
    ELSE IF ~IsSome(itemLabel(handler, p)) THEN None
    ELSE calculateMacros(store, Val(itemLabel(handler, p)),
                         estimatedWeight(handler, p), macroCalories(handler, p))

\* lines 114, 153, 220-224: the calories of the item (tenths of a kcal)
itemCalories(store, handler, p) ==
    IF handler # "geometry" THEN p.calories
    ELSE LET macros == itemMacros(store, handler, p)
         IN  IF IsSome(macros)
                THEN LET m == Val(macros)
                     IN  Some(10 * RoundDiv(4 * m.proteinG + 4 * m.carbsG + 9 * m.fatG, 10))
                ELSE Some(estimatedCalories(p))

\* lines 126, 165, 232: the fraction of the calories, in percent
sigmaPercent_Flat(handler) == 10

sigmaPercent(handler) ==
    CASE handler = "label" -> 5
      [] handler = "menu" -> 10
      [] OTHER -> 15

\* calories * fraction, in thousandths of a kcal; <<>> is NaN (undefined
\* calories), which JSON.stringify writes as null
sigmaCalories(handler, calories) ==
    IF IsSome(calories) THEN Some(Val(calories) * sigmaPercent(handler)) ELSE None

\* the priors with the two relative uncertainties exchanged
finalPriors_SigmasSwapped(p) ==
    [density |-> [mu |-> p.densityGML, sigma |-> p.densityGML * 20],
     kcalPerG |-> [mu |-> p.kcalPerG, sigma |-> p.kcalPerG * 15]]

\* lines 194-203: densitySigma = densityGML * 0.15, kcalPerGSigma = kcalPerG *
\* 0.20; mu in hundredths, sigma in ten-thousandths (mu x percent)
finalPriors(p) ==
    [density |-> [mu |-> p.densityGML, sigma |-> p.densityGML * 15],
     kcalPerG |-> [mu |-> p.kcalPerG, sigma |-> p.kcalPerG * 20]]

\* lines 120-137, 159-176, 226-239: the item of the response
buildItem(store, handler, p) ==
    LET calories == itemCalories(store, handler, p)
    IN  [label |-> itemLabel(handler, p),
         calories |-> calories,
         sigmaCalories |-> sigmaCalories(handler, calories),
         weightGrams |-> estimatedWeight(handler, p),
         volumeML |-> 0,
         path |-> handler,
         nutritionLabel |-> handler = "label",
         menuItem |-> handler = "menu",
         priors |-> IF handler = "geometry" THEN Some(finalPriors(p)) ELSE None,
         macros |-> itemMacros(store, handler, p)]

\* the food_priors tables the function may run against
EdgeStores ==
    {{},
     {PriorsRow(<<"r", "i", "c", "e">>, Some(27), Some(282), Some(3), Some(4))},
     {PriorsRow(<<"r", "i", "c", "e">>, Some(27), Some(282), Some(3), Some(4)),
      PriorsRow(<<"c", "h", "i", "c", "k", "e", "n", " ", "b", "r", "e", "a", "s", "t">>, None, None, None, None)}}

InitEdge ==
    /\ LoadIdle
    /\ AppIdle
    /\ ChainIdle
    /\ ImageIdle
    /\ NormIdle
    /\ SanIdle
    /\ foodPriors \in EdgeStores
    /\ mLabel = <<>>
    /\ mWeightGrams = 0
    /\ mCalories = 0
    /\ mResult = None
    /\ eApiKey \in BOOLEAN
    /\ eRequest \in [json : BOOLEAN, imageUrl : BOOLEAN, imageBase64 : BOOLEAN]
    /\ ~eRequest.json => (~eRequest.imageUrl /\ ~eRequest.imageBase64)
    /\ ePc = "waiting"
    /\ eDetection = None
    /\ eHandlers = <<>>
    /\ eCalls = <<>>
    /\ ePayload = None
    /\ eResponse = None

\* lines 92, 249-252: await req.json() throws on a body that is not a JSON
\* object
BodyUnreadable ==
    /\ ePc = "waiting"
    /\ ~eRequest.json
    /\ eResponse' = Some(Response(500, "Analyzer error", "SyntaxError: Unexpected token", <<>>))
    /\ ePc' = "responded"
    /\ UNCHANGED <<eApiKey, eRequest, eDetection, eHandlers, eCalls, ePayload>>
    /\ EdgeFrame

\* the input check placed after the detection call
RejectRequest_AfterDetection ==
    /\ ePc = "waiting"
    /\ eRequest.json
    /\ ~eRequest.imageUrl /\ ~eRequest.imageBase64
    /\ eCalls' = Append(eCalls, "detectImageType")
    /\ eResponse' = Some(Response(400, "Provide imageUrl or imageBase64", "", <<>>))
    /\ ePc' = "responded"
    /\ UNCHANGED <<eApiKey, eRequest, eDetection, eHandlers, ePayload>>
    /\ EdgeFrame

\* lines 92-99: neither image reference is present
RejectRequest ==
    /\ ePc = "waiting"
    /\ eRequest.json
    /\ ~eRequest.imageUrl /\ ~eRequest.imageBase64
    /\ eResponse' = Some(Response(400, "Provide imageUrl or imageBase64", "", <<>>))
    /\ ePc' = "responded"
    /\ UNCHANGED <<eApiKey, eRequest, eDetection, eHandlers, eCalls, ePayload>>
    /\ EdgeFrame

\* lines 102, 491-493, 249-252: detectImageType throws before any fetch
DetectionNotConfigured ==
    /\ ePc = "waiting"
    /\ eRequest.json
    /\ eRequest.imageUrl \/ eRequest.imageBase64
    /\ ~eApiKey
    /\ eResponse' = Some(Response(500, "Analyzer error",
                                  "Error: CLASSIFIER_API_KEY not configured", <<>>))
    /\ ePc' = "responded"
    /\ UNCHANGED <<eApiKey, eRequest, eDetection, eHandlers, eCalls, ePayload>>
    /\ EdgeFrame

\* lines 102, 538-546: the detection request is sent
StartDetection ==
    /\ ePc = "waiting"
    /\ eRequest.json
    /\ eRequest.imageUrl \/ eRequest.imageBase64
    /\ eApiKey
    /\ eCalls' = Append(eCalls, "detectImageType")
    /\ ePc' = "detecting"
    /\ UNCHANGED <<eApiKey, eRequest, eDetection, eHandlers, ePayload, eResponse>>
    /\ EdgeFrame

\* lines 548-563, 249-252: detection throws, the catch answers 500
DetectionFails ==
    /\ ePc = "detecting"
    /\ \E e \in DetectionErrors :
         eResponse' = Some(Response(500, "Analyzer error", e, <<>>))
    /\ ePc' = "responded"
    /\ UNCHANGED <<eApiKey, eRequest, eDetection, eHandlers, eCalls, ePayload>>
    /\ EdgeFrame

\* lines 563-570, 103-112 / 144-151 / 183-186: detection returned, the
\* handler of the route is called
DetectionReturns ==
    /\ ePc = "detecting"
    /\ \E d \in DetectionOutputs :
         /\ eDetection' = Some(d)
         /\ eHandlers' = Append(eHandlers, routePath(d))
         /\ eCalls' = Append(eCalls, handlerCall(routePath(d)))
    /\ ePc' = "path"
    /\ UNCHANGED <<eApiKey, eRequest, ePayload, eResponse>>
    /\ EdgeFrame

\* the path handler throws, the catch answers 500
PathFails ==
    /\ ePc = "path"
    /\ \E e \in PathErrors(eHandlers[Len(eHandlers)]) :
         eResponse' = Some(Response(500, "Analyzer error", e, <<>>))
    /\ ePc' = "responded"
    /\ UNCHANGED <<eApiKey, eRequest, eDetection, eHandlers, eCalls, ePayload>>
    /\ EdgeFrame

\* lines 112-118 / 147-157 / 186-216: the path handler returned; macros are
\* asked of calculateMacros, which looks the label up in food_priors, unless
\* the classifier of the geometry path supplied them, in which case the
\* response is built at once (lines 220-248)
PathReturns ==
    /\ ePc = "path"
    /\ \E p \in PathOutputs(eHandlers[Len(eHandlers)]) :
         LET handler == eHandlers[Len(eHandlers)]
         IN  /\ ePayload' = Some(p)
             /\ IF needsMacros(handler, p)
                    THEN /\ eCalls' = Append(eCalls, "getPriorsForLabel")
                         /\ ePc' = "macros"
                         /\ UNCHANGED eResponse
                    ELSE /\ eResponse' =
                                Some(Response(200, "", "", <<buildItem(foodPriors, handler, p)>>))
                         /\ ePc' = "responded"
                         /\ UNCHANGED eCalls
    /\ UNCHANGED <<eApiKey, eRequest, eDetection, eHandlers>>
    /\ EdgeFrame

\* lines 118 / 157 / 215, then 120-143 / 159-182 / 220-245 and 248:
\* calculateMacros returned, the item is built and the response is 200
MacrosReturn ==
    /\ ePc = "macros"
    /\ LET handler == eHandlers[Len(eHandlers)]
       IN  /\ ~calculateMacrosThrows(foodPriors, handler, Val(ePayload))
           /\ eResponse' =
                Some(Response(200, "", "", <<buildItem(foodPriors, handler, Val(ePayload))>>))
    /\ ePc' = "responded"
    /\ UNCHANGED <<eApiKey, eRequest, eDetection, eHandlers, eCalls, ePayload>>
    /\ EdgeFrame

\* lines 455, 249-252: calculateMacros throws in the ratio tier, the catch
\* answers 500
MacrosThrow ==
    /\ ePc = "macros"
    /\ calculateMacrosThrows(foodPriors, eHandlers[Len(eHandlers)], Val(ePayload))
    /\ eResponse' =
         Some(Response(500, "Analyzer error",
                       "TypeError: Cannot read properties of undefined (reading 'toLowerCase')",
                       <<>>))
    /\ ePc' = "responded"
    /\ UNCHANGED <<eApiKey, eRequest, eDetection, eHandlers, eCalls, ePayload>>
    /\ EdgeFrame

NextEdge ==
    \/ BodyUnreadable
    \/ RejectRequest
    \/ DetectionNotConfigured
    \/ StartDetection
    \/ DetectionFails
    \/ DetectionReturns
    \/ PathFails
    \/ PathReturns
    \/ MacrosReturn
    \/ MacrosThrow

SpecEdge == InitEdge /\ [][NextEdge]_vars

(***************************************************************************)
(* Properties of the fallback chain                                        *)
(***************************************************************************)
Occurrences(seq, x) == Cardinality({i \in 1..Len(seq) : seq[i] = x})
Position(seq, x) == CHOOSE i \in 1..Len(seq) : seq[i] = x
Failed(a) == a[2] # "resolved"
StubFailed == \E i \in 1..Len(attemptLog) : attemptLog[i][1] = "stub" /\ Failed(attemptLog[i])
AttemptedTypes == [i \in 1..Len(attemptLog) |-> attemptLog[i][1]]
SupabaseConfigured ==
    /\ env["SUPABASE_URL"] \/ env["NEXT_PUBLIC_SUPABASE_URL"]
    /\ env["SUPABASE_ANON_KEY"] \/ env["NEXT_PUBLIC_SUPABASE_ANON_KEY"]
OpenAIConfigured == env["OPENAI_API_KEY"]

\* C1: the chain getFallbackChain returns is never empty, holds 'stub'
\* exactly once and as its last element, holds 'supabase' iff both the
\* Supabase URL and key are configured, holds 'openai' iff the OpenAI key is
\* configured, and has 'supabase' before 'openai' when both occur.
C1_FallbackChainShape ==
    pc # "idle" =>
        /\ Len(fallbackChain) >= 1
        /\ fallbackChain[Len(fallbackChain)] = "stub"
        /\ Occurrences(fallbackChain, "stub") = 1
        /\ Occurrences(fallbackChain, "supabase") = (IF SupabaseConfigured THEN 1 ELSE 0)
        /\ Occurrences(fallbackChain, "openai") = (IF OpenAIConfigured THEN 1 ELSE 0)
        /\ (SupabaseConfigured /\ OpenAIConfigured) =>
                Position(fallbackChain, "supabase") < Position(fallbackChain, "openai")

C1_Witness ==
    /\ pc # "idle"
    /\ fallbackChain = <<"supabase", "openai", "stub">>
    /\ ~env["SUPABASE_URL"]
    /\ ~env["SUPABASE_ANON_KEY"]

\* C2: when analyzeViaDirectAnalyzers returns, meta.used is the prefix of the
\* fallback chain up to and including the analyzer that succeeded (every
\* failed attempt included, in attempt order, whatever meta the backend
\* returned), and meta.isFallback is true exactly when meta.used has more
\* than one element.
C2_UsedIsAttemptedPrefix ==
    outcome.kind = "returned" =>
        LET a == Val(outcome.value)
            k == Len(a.meta.used)
        IN  /\ a.meta.present
            /\ k >= 1
            /\ k <= Len(fallbackChain)
            /\ a.meta.used = SubSeq(fallbackChain, 1, k)
            /\ a.meta.used = AttemptedTypes
            /\ fallbackChain[k] = a.source
            /\ attemptLog[k][2] = "resolved"
            /\ \A i \in 1..(k - 1) : Failed(attemptLog[i])
            /\ (a.meta.isFallback = "true") <=> (k > 1)
            /\ a.meta.isFallback \in {"true", "false"}

C2_Witness ==
    /\ outcome.kind = "returned"
    /\ Val(outcome.value).source = "openai"
    /\ Val(outcome.value).meta.used = <<"supabase", "openai">>
    /\ backendMeta = Meta(TRUE, <<"openai">>, "false")

\* C3: whatever the configuration and whichever of the managed and vision
\* backends fail, the chain call runs to completion in at most one attempt
\* per chain member and, unless the stub's own analyze fails, returns an
\* AnalyzeOutput with at least one entry in meta.used; the all-failed error
\* is thrown only when the stub itself failed.  With supabase and openai both
\* in the chain and both failing, the stub's result is returned with
\* meta.used = [supabase, openai, stub] and meta.isFallback = true.
C3_StubGuaranteesAnswer ==
    /\ pc # "done" => ENABLED NextChain
    /\ Len(attemptLog) <= Len(fallbackChain)
    /\ (pc = "done" /\ ~StubFailed) =>
            /\ outcome.kind = "returned"
            /\ Len(Val(outcome.value).meta.used) >= 1
    /\ outcome.kind = "thrown" => StubFailed
    /\ ( /\ pc = "done"
         /\ fallbackChain = <<"supabase", "openai", "stub">>
         /\ Len(attemptLog) = 3
         /\ Failed(attemptLog[1])
         /\ Failed(attemptLog[2])
         /\ ~Failed(attemptLog[3]) ) =>
            /\ outcome.kind = "returned"
            /\ Val(outcome.value).source = "stub"
            /\ Val(outcome.value).meta.used = <<"supabase", "openai", "stub">>
            /\ Val(outcome.value).meta.isFallback = "true"

C3_Witness ==
    /\ outcome.kind = "returned"
    /\ attemptLog = << <<"supabase", "rejected", "Supabase analyzer failed: 500">>,
                       <<"openai", "rejected", "OpenAI analyzer failed: 429">>,
                       <<"stub", "resolved", "">> >>

\* C4: if every analyzer of the chain fails, analyzeViaDirectAnalyzers
\* returns no AnalyzeOutput and throws one aggregate error whose message
\* carries the message of the last analyzer attempted, not an earlier one.
C4_AggregateCarriesLastError ==
    (pc = "done" /\ \A i \in 1..Len(attemptLog) : Failed(attemptLog[i])) =>
        /\ outcome.kind = "thrown"
        /\ outcome.value = None
        /\ Len(attemptLog) = Len(fallbackChain)
        /\ outcome.lastErrorText = attemptLog[Len(attemptLog)][3]

C4_Witness ==
    /\ outcome.kind = "thrown"
    /\ Len(attemptLog) = 3
    /\ attemptLog[1][2] = "resolve-threw"
    /\ attemptLog[2][2] = "rejected"
    /\ outcome.lastErrorText = "Stub analyzer failed"

\* C5: within one chain call the analyzers are invoked one at a time in
\* chain order: analyze of a chain member starts only once every earlier
\* member's attempt has ended in failure, no analyzer is invoked twice, at
\* most one analyze call is in flight, and none is invoked after a success.
C5_SequentialNoRetry ==
    /\ Cardinality(inFlight) <= 1
    /\ \A i, j \in 1..Len(callLog) : i < j =>
            /\ callLog[i] # callLog[j]
            /\ Position(fallbackChain, callLog[i]) < Position(fallbackChain, callLog[j])
    /\ pc = "await" =>
            /\ inFlight = {fallbackChain[idx]}
            /\ callLog[Len(callLog)] = fallbackChain[idx]
            /\ AttemptedTypes = SubSeq(fallbackChain, 1, idx - 1)
            /\ \A i \in 1..Len(attemptLog) : Failed(attemptLog[i])
    /\ pc # "await" => inFlight = {}
    /\ \A i \in 1..Len(attemptLog) : ~Failed(attemptLog[i]) =>
            /\ i = Len(attemptLog)
            /\ callLog[Len(callLog)] = attemptLog[i][1]
            /\ pc \in {"after", "done"}

C5_Witness ==
    /\ pc = "await"
    /\ callLog = <<"supabase", "openai", "stub">>

(***************************************************************************)
(* Properties of the normalizer                                            *)
(***************************************************************************)
Normalized == IsSome(nResult)
InCalories == Val(nItem).calories
InConfidence == Val(nItem).confidence
\* round(proteinG*4 + carbsG*4 + fatG*9) on the macros of the result (tenths)
CalsFromMacros ==
    LET m == Val(Val(nResult).macros)
    IN  RoundDiv(4 * m.proteinG + 4 * m.carbsG + 9 * m.fatG, 10)
RoundedItemCalories == RoundDiv(Val(InCalories), 10)
TableValue == estimateCalories(Val(nResult).foodType)

\* C6 as stated: whether the macro-derived figure is used is decided on the
\* item calories themselves (absent, < 20, or calsFromMacros > 0.5 x item
\* calories), not on their rounded value.
C6_AsStated ==
    (Normalized /\ IsSome(nItem)) =>
        IF IsSome(Val(nResult).macros)
            THEN IF /\ CalsFromMacros >= 20
                    /\ \/ ~IsSome(InCalories)
                       \/ Val(InCalories) < 200
                       \/ 20 * CalsFromMacros > Val(InCalories)
                    THEN Val(nResult).calories = CalsFromMacros
                    ELSE Val(nResult).calories =
                            (IF IsSome(InCalories) THEN RoundedItemCalories ELSE TableValue)
            ELSE Val(nResult).calories =
                    (IF IsSome(InCalories) THEN RoundedItemCalories ELSE TableValue)

\* C6 (amended): with macros present and calsFromMacros = round(proteinG*4 +
\* carbsG*4 + fatG*9) on the 1-decimal-rounded macros, the output calories
\* are calsFromMacros when calsFromMacros >= 20 and (the item calories are
\* absent, or rounded to a whole number are < 20, or calsFromMacros > 0.5 x
\* the rounded item calories); otherwise, and when macros are absent, they
\* are the item calories rounded to a whole number, or the per-label table
\* value when the item has no calories.
C6_ReconciledCalories ==
    (Normalized /\ IsSome(nItem)) =>
        /\ IsSome(Val(nResult).macros) <=> IsSome(Val(nItem).macros)
        /\ IsSome(Val(nItem).macros) =>
                LET m == Val(Val(nItem).macros)
                IN  Val(Val(nResult).macros) =
                        Macros(RoundDiv(m.proteinG, 10), RoundDiv(m.carbsG, 10),
                               RoundDiv(m.fatG, 10))
        /\ IF /\ IsSome(Val(nResult).macros)
              /\ CalsFromMacros >= 20
              /\ \/ ~IsSome(InCalories)
                 \/ RoundedItemCalories < 20
                 \/ 2 * CalsFromMacros > RoundedItemCalories
              THEN Val(nResult).calories = CalsFromMacros
              ELSE Val(nResult).calories =
                      (IF IsSome(InCalories) THEN RoundedItemCalories ELSE TableValue)
        /\ (~IsSome(InCalories) /\ ~IsSome(Val(nItem).macros)) =>
                /\ Val(nResult).foodType = <<"a", "p", "p", "l", "e">> => Val(nResult).calories = 95
                /\ Val(nResult).foodType = <<"G", "r", "i", "l", "l", "e", "d", " ", "C", "h", "i", "c", "k", "e", "n">> => Val(nResult).calories = 165
                /\ Val(nResult).foodType = <<"F", "o", "o", "d", " ", "I", "t", "e", "m">> => Val(nResult).calories = 100

\* macros give 19.6 -> 20 kcal, the item says 40 kcal: the item's figure is kept
C6_Witness ==
    /\ Normalized
    /\ IsSome(nItem)
    /\ Val(nItem).macros = Some(Macros(487, 0, 0))
    /\ InCalories = Some(400)
    /\ Val(nResult).calories = 40

\* C7: the confidence of the normalized result lies in [0,1] for every
\* confidence a backend supplies, on the direct and on the API path: a number
\* is clamped (below 0 gives 0, above 1 gives 1, inside unchanged), a missing
\* or invalid value gives 0.6.
C7_ConfidenceClamped ==
    (Normalized /\ IsSome(nItem)) =>
        LET c == Val(nResult).confidence
        IN  /\ ~c.nan
            /\ c.val >= 0
            /\ c.val <= 100
            /\ InConfidence.kind = "number" =>
                    c.val = (IF InConfidence.val < 0 THEN 0
                             ELSE IF InConfidence.val > 100 THEN 100
                             ELSE InConfidence.val)
            /\ InConfidence.kind # "number" => c.val = 60

(***************************************************************************)
(* Properties of label sanitization                                        *)
(***************************************************************************)
\* C8: label sanitization is idempotent: sanitizeLabel(sanitizeLabel(s)) =
\* sanitizeLabel(s) for every raw label s, also when the first application
\* gives the sentinel "unknown_food" and when s has more than one
\* dot-separated suffix.
C8_SanitizeIdempotent ==
    IsSome(sTwice) => Val(sTwice) = Val(sOnce)

(***************************************************************************)
(* Properties of the macro calculator                                      *)
(***************************************************************************)
\* rows whose label is the queried label, case-insensitively
RowsForLabel == {r \in foodPriors : toLowerCase(r.label) = toLowerCase(mLabel)}
RowHasMacros(r) ==
    IsSome(r.protein_per_100g) /\ IsSome(r.carbs_per_100g) /\ IsSome(r.fat_per_100g)
\* the per-100 g values scaled by weightGrams / 100, rounded to 1 decimal
ScaledRow(r) ==
    [proteinG |-> RoundDiv(Val(r.protein_per_100g) * mWeightGrams, 1000),
     carbsG |-> RoundDiv(Val(r.carbs_per_100g) * mWeightGrams, 1000),
     fatG |-> RoundDiv(Val(r.fat_per_100g) * mWeightGrams, 1000)]
MainMacros(m) == [proteinG |-> m.proteinG, carbsG |-> m.carbsG, fatG |-> m.fatG]
RatioComputable == mWeightGrams > 0 /\ mCalories > 0

C10_ExactlyOnePathByType ==
    IsSome(eDetection) =>
        LET d == Val(eDetection)
            h == eHandlers[1]
        IN  /\ Len(eHandlers) = 1
            /\ SubSeq(eCalls, 1, 2) = <<"detectImageType", handlerCall(h)>>
            /\ (h = "label") <=> (d.imageType = "packaged")
            /\ (h = "menu") <=> (d.imageType = "restaurant" /\ d.hasName)
            /\ (h = "geometry") <=>
                    \/ d.imageType = "prepared"
                    \/ (d.imageType = "restaurant" /\ ~d.hasName)
            /\ (IsSome(eResponse) /\ Val(eResponse).status = 200) =>
                    Val(eResponse).items[1].path = h

\* the responses of the edge function
Responded == IsSome(eResponse)
Succeeded == IsSome(eResponse) /\ Val(eResponse).status = 200
ResponseItem == Val(eResponse).items[1]

\* C11: in every successful response item.sigmaCalories is a fixed fraction
\* of the calories of the same item, keyed to the path that produced it: 5%
\* on the label path, 10% on the menu path, 15% on the geometry path
\* (calories in tenths, sigmaCalories in thousandths of a kcal).  An item
\* whose handler reported no calories has no number in either field.
C11_SigmaIsFractionOfCalories ==
    Succeeded =>
        LET item == ResponseItem
        IN  /\ IsSome(item.sigmaCalories) <=> IsSome(item.calories)
            /\ IsSome(item.calories) =>
                /\ item.path = "label" => Val(item.sigmaCalories) = 5 * Val(item.calories)
                /\ item.path = "menu" => Val(item.sigmaCalories) = 10 * Val(item.calories)
                /\ item.path = "geometry" => Val(item.sigmaCalories) = 15 * Val(item.calories)
                /\ item.path \in {"label", "menu", "geometry"}

\* a geometry item of 196 kcal (from the macros calculateMacros derived) with
\* sigmaCalories 29.4
C11_Witness ==
    /\ Succeeded
    /\ ResponseItem.path = "geometry"
    /\ ResponseItem.calories = Some(1960)
    /\ ResponseItem.sigmaCalories = Some(29400)
    /\ Val(eDetection).imageType = "prepared"

\* the request body parsed and carries an image reference
HasImage == eRequest.json /\ (eRequest.imageUrl \/ eRequest.imageBase64)

C13_StubResultMarkedFallback ==
    (outcome.kind = "returned" /\ Val(outcome.value).source = "stub") =>
        LET a == Val(outcome.value)
        IN  /\ a.meta.isFallback = "true"
            /\ a.meta.used = AttemptedTypes
            /\ a.meta.used[Len(a.meta.used)] = "stub"
            /\ \A i \in 1..(Len(a.meta.used) - 1) : Failed(attemptLog[i])

(***************************************************************************)
(* Properties of analyzeImage                                              *)
(***************************************************************************)
ImageResult == Val(aOutcome.result)
\* the backends whose analyze call resolved
SucceededBackends == {attemptLog[i][1] : i \in {j \in 1..Len(attemptLog) : attemptLog[j][2] = "resolved"}}

\* C14: analyzerSource of the FoodAnalysisResult names the analyzer that
\* produced the returned result: for every outcome of the chain it is the
\* backend whose analyze call succeeded, so a stub-produced result is flagged
\* 'stub' also when earlier backends were attempted and failed.
C14_SourceIsSucceededBackend ==
    (aOutcome.kind = "resolved" /\ ~aUseApi) =>
        /\ ImageResult.analyzerSource = Val(outcome.value).source
        /\ SucceededBackends = {ImageResult.analyzerSource}

\* the real analyzers failed: the API endpoint on the API path; on the direct
\* path every managed or vision backend attempted, with the stub answering
RealAnalyzersFailed ==
    \/ aUseApi /\ ~aApiResponse.ok
    \/ /\ ~aUseApi
       /\ IsSome(aInput)
       /\ SucceededBackends \subseteq {"stub"}
       /\ aResponses["stub"].ok

\* C15: for every FoodAnalyzer configuration, the pre-configured instance
\* with apiUrl set included, if the real analyzers fail (network error,
\* non-OK response of the API endpoint, Supabase or OpenAI) analyzeImage
\* still resolves, with a result taken from the stub analyzer, and does not
\* reject.
C15_FailureFallsBackToStub ==
    (aPc = "done" /\ RealAnalyzersFailed) =>
        /\ aOutcome.kind = "resolved"
        /\ ImageResult.foodType = Val(Val(BackendItem("stub")).label)

\* C17: an analysis call whose input carries no image reference (neither
\* imageUrl nor a non-empty imageBase64) is surfaced at once as an input
\* error: no backend is called for it, it is not counted as a backend
\* failure, the fallback chain does not advance, and it never ends in a
\* result returned as success.
C17_MissingImageIsInputError ==
    (~aUseApi /\ IsSome(aInput) /\ ~HasImageReference(Val(aInput))) =>
        /\ callLog = <<>>
        /\ attemptLog = <<>>
        /\ usedAnalyzers = <<>>
        /\ aOutcome.kind # "resolved"
        /\ aPc = "done" => aOutcome.kind = "rejected"

(***************************************************************************)
(* Properties of loading the module                                        *)
(***************************************************************************)
ConstructedBy(who) == {i \in 1..Len(lConstructed) : lConstructed[i][2] = who}
AccessesOf(proxy) == {i \in 1..Len(lAccesses) : lAccesses[i][1] = proxy}

\* C16: loading the module constructs no FoodLogger and no FoodAnalyzer and
\* never fails when Supabase credentials are absent; each pre-configured
\* instance is created on the first property access of its proxy, at most
\* once, so that missing credentials surface on first use.
C16_LoadConstructsNothing ==
    /\ lPc # "failed"
    /\ lPc = "loaded" =>
        /\ \A i \in 1..Len(lConstructed) :
                lConstructed[i][1] \in {"FoodAnalyzer", "FoodLogger"} =>
                    lConstructed[i][2] \in {"foodAnalyzer", "foodLogger"}
        /\ Cardinality(ConstructedBy("foodAnalyzer")) =
                (IF AccessesOf("foodAnalyzer") # {} THEN 1 ELSE 0)
        /\ Cardinality(ConstructedBy("foodLogger")) <= 1
        /\ ConstructedBy("foodLogger") # {} => AccessesOf("foodLogger") # {}

(***************************************************************************)
(* Further properties of the edge function                                 *)
(***************************************************************************)
DetectionThrew ==
    /\ Responded
    /\ eCalls # <<>>
    /\ eCalls[Len(eCalls)] = "detectImageType"

\* C18: when the detection call is unreachable, answers with a payload that
\* does not conform to the schema, or omits imageType, the request ends in
\* the failure response and no path handler (label, menu, geometry) is run.
C18_DetectionFailureRunsNoPath ==
    /\ DetectionThrew => (eHandlers = <<>> /\ Val(eResponse).status = 500)
    /\ (IsSome(eDetection) /\ Val(eDetection).imageType = "undefined") =>
            /\ eHandlers = <<>>
            /\ Responded => Val(eResponse).status = 500

\* what every value of sanitizeLabel satisfies: the sentinel, or a non-empty
\* lower-cased trimmed string without '_' and '-'
LooksSanitized(label) ==
    \/ label = UnknownFood
    \/ /\ label # <<>>
       /\ toLowerCase(label) = label
       /\ trim(label) = label
       /\ \A i \in 1..Len(label) : ~IsSeparator(label[i])

\* C20: on every path (label, menu, geometry) the label of the item in a
\* successful response is sanitized: a non-empty string, lower-cased,
\* trimmed, with '_' and '-' collapsed to spaces, or the sentinel
\* "unknown_food" in place of an empty result.
C20_ItemLabelSanitized ==
    Succeeded =>
        /\ IsSome(ResponseItem.label)
        /\ LooksSanitized(Val(ResponseItem.label))

(***************************************************************************)
(* Determinism of analyzeImage                                             *)
(***************************************************************************)
\* The result written as a function of the inputs alone: the environment,
\* the configuration, the image and each backend's answer.
Answers(type, cfg, resp) == resolveAnalyzer(type, cfg) = None /\ resp[type].ok

FailureText(type, cfg, resp) ==
    IF IsSome(resolveAnalyzer(type, cfg)) THEN Val(resolveAnalyzer(type, cfg))
    ELSE resp[type].error

ExpectedChain(e, cfg, resp) ==
    LET chain == getFallbackChain(e)
        wins == {i \in 1..Len(chain) : Answers(chain[i], cfg, resp)}
    IN  IF wins = {}
            THEN Thrown(aggregateMessage(
                        IF chain = <<>> THEN None
                        ELSE Some(FailureText(chain[Len(chain)], cfg, resp))))
            ELSE LET w == CHOOSE i \in wins : \A j \in wins : i <= j
                 IN  Returned(Output(chain[w],
                                     Meta(TRUE, SubSeq(chain, 1, w),
                                          IF w > 1 THEN "true" ELSE "false")))

ExpectedImage(useApi, image, readerOk, e, cfg, resp, api) ==
    IF useApi
        THEN IF api.ok
                THEN LET out == convertLegacyToOutput(Val(api.item), api.meta)
                     IN  ImageResolved(mapToResult(out.item, out.meta))
                ELSE ImageRejected(api.error)
    ELSE IF image = "blob" /\ ~readerOk
        THEN ImageRejected("FileReader error")
    ELSE LET c == ExpectedChain(e, cfg, resp)
         IN  IF c.kind = "thrown" THEN ImageRejected(c.lastErrorText)
             ELSE ImageResolved(mapToResult(resp[Val(c.value).source].item,
                                            Val(c.value).meta))

\* C19: analysis is deterministic.  With the same input, the same
\* configuration and the same backend responses, every run of the fallback
\* chain and the normalizer ends with the same result, the same meta.used and
\* the same isFallback: what the chain returns or throws, and what
\* analyzeImage settles with, are functions of those inputs.
C19_AnalysisDeterministic ==
    /\ (aPc \in {"chain", "done"} /\ pc = "done") =>
            outcome = ExpectedChain(env, config, aResponses)
    /\ aPc = "done" =>
            aOutcome = ExpectedImage(aUseApi, aImage, aReaderOk, env, config,
                                     aResponses, aApiResponse)

C19_Witness ==
    /\ aPc = "done"
    /\ ~aUseApi
    /\ outcome.kind = "returned"
    /\ Val(outcome.value).meta.used = <<"supabase", "openai", "stub">>
    /\ Val(outcome.value).meta.isFallback = "true"
    /\ attemptLog[1][2] = "rejected"
    /\ attemptLog[2][2] = "resolve-threw"
    /\ aOutcome.kind = "resolved"
    /\ Val(aOutcome.result).usedFallback

(***************************************************************************)
(* Further properties of the macro calculator                              *)
(***************************************************************************)
PriorsTierApplies ==
    LET priors == getPriorsForLabel(foodPriors, mLabel)
    IN  IsSome(priors) /\ IsSome(Val(priors).macros) /\ mWeightGrams > 0

RatioTierApplies == ~PriorsTierApplies /\ RatioComputable

\* C21: in the ratio tier the ratios of every category (protein-dominant,
\* carb-dominant, produce, default) sum to 1: proteinRatio + carbsRatio +
\* fatRatio = 100 percent.
C21_RatiosSumToOne ==
    (IsSome(mResult) /\ RatioTierApplies) =>
        LET r == macroRatios(mLabel)
        IN  r.proteinRatio + r.carbsRatio + r.fatRatio = 100

\* the categories in the order they are tested, by keyword
CategoryKeywords ==
    <<{<<"c", "h", "i", "c", "k", "e", "n">>, <<"b", "e", "e", "f">>, <<"f", "i", "s", "h">>,
       <<"m", "e", "a", "t">>},
      {<<"r", "i", "c", "e">>, <<"p", "a", "s", "t", "a">>, <<"b", "r", "e", "a", "d">>},
      {<<"s", "a", "l", "a", "d">>, <<"v", "e", "g", "e", "t", "a", "b", "l", "e">>,
       <<"b", "r", "o", "c", "c", "o", "l", "i">>}>>

CategoriesOf(label) ==
    {i \in 1..3 : \E k \in CategoryKeywords[i] : includes(toLowerCase(label), k)}

\* percent of the calories from protein, carbs and fat of the earliest
\* category the label matches
EarliestCategoryRatios(label) ==
    LET cs == CategoriesOf(label)
        first == IF cs = {} THEN 4 ELSE CHOOSE i \in cs : \A j \in cs : i <= j
    IN  <<<<30, 0, 20>>, <<10, 75, 15>>, <<20, 60, 20>>, <<15, 55, 30>>>>[first]

\* C22: when the priors tier does not apply and weightGrams > 0 and
\* calories > 0, calculateMacros returns proteinG = round1(calories x
\* proteinRatio / 4), carbsG = round1(calories x carbsRatio / 4), fatG =
\* round1(calories x fatRatio / 9) with the ratios of the earliest matching
\* category (protein-dominant, carb-dominant, produce, default); the value
\* does not depend on weightGrams.
C22_RatioTierFormula ==
    (IsSome(mResult) /\ RatioTierApplies) =>
        LET r == EarliestCategoryRatios(mLabel)
        IN  Val(mResult) = Some(MacroResult(RoundDiv(mCalories * r[1], 400),
                                            RoundDiv(mCalories * r[2], 400),
                                            RoundDiv(mCalories * r[3], 900),
                                            None))

C22_Witness ==
    /\ IsSome(mResult)
    /\ RatioTierApplies
    /\ mLabel = <<"c", "h", "i", "c", "k", "e", "n", " ", "r", "i", "c", "e">>
    /\ CategoriesOf(mLabel) = {1, 2}
    /\ mWeightGrams = 1500
    /\ mCalories = 2310
    /\ Val(mResult) = Some(MacroResult(173, 0, 51, None))

(***************************************************************************)
(* Absent macros                                                           *)
(***************************************************************************)
\* the arguments the handler passed to calculateMacros for the item
MacroArgs ==
    LET h == eHandlers[Len(eHandlers)]
        p == Val(ePayload)
    IN  [label |-> itemLabel(h, p), weightGrams |-> estimatedWeight(h, p),
         calories |-> macroCalories(h, p)]

\* no tier applies: weightGrams <= 0, or no priors macros for the label and
\* calories <= 0
NoTierApplies ==
    LET a == MacroArgs
        priors == IF IsSome(a.label) THEN getPriorsForLabel(foodPriors, Val(a.label)) ELSE None
    IN  \/ a.weightGrams <= 0
        \/ (~(IsSome(priors) /\ IsSome(Val(priors).macros)) /\ a.calories <= 0)

\* the item as the SupabaseAnalyzer hands it to mapToResult (macros in
\* hundredths of a gram)
AnalyzeItemOf(it) ==
    Item(it.label, ConfNumber(80), it.calories,
         IF IsSome(it.macros)
            THEN Some(Macros(10 * Val(it.macros).proteinG, 10 * Val(it.macros).carbsG,
                             10 * Val(it.macros).fatG))
            ELSE None)

\* C23: calculateMacros returns undefined exactly when no tier applies
\* (weightGrams <= 0, or no priors macros for the label and calories <= 0),
\* and absent macros stay absent downstream: the item of the response and the
\* FoodAnalysisResult normalized from it (directly, or through the legacy API
\* response) carry no macros, never {0, 0, 0} in their place.
C23_AbsentMacrosStayAbsent ==
    (Succeeded /\ Occurrences(eCalls, "getPriorsForLabel") > 0) =>
        LET it == ResponseItem
            direct == mapToResult(Some(AnalyzeItemOf(it)), Meta(TRUE, <<"supabase">>, "undefined"))
            legacy == convertLegacyToOutput(AnalyzeItemOf(it), NoMeta)
        IN  /\ it.macros = None <=> NoTierApplies
            /\ direct.macros = None <=> it.macros = None
            /\ Val(legacy.item).macros = None <=> it.macros = None
            /\ mapToResult(legacy.item, legacy.meta).macros = None <=> it.macros = None

C23_Witness ==
    /\ Succeeded
    /\ Occurrences(eCalls, "getPriorsForLabel") > 0
    /\ ResponseItem.path = "label"
    /\ ResponseItem.label = Some(<<"r", "i", "c", "e">>)
    /\ Val(ePayload).calories = Some(0)
    /\ foodPriors # {}
    /\ NoTierApplies
    /\ ResponseItem.macros = None
    /\ mapToResult(Some(AnalyzeItemOf(ResponseItem)), NoMeta).macros = None

(***************************************************************************)
(* Ranges of the item fields                                               *)
(***************************************************************************)
\* the handler's output had every field its JSON schema requires: label and
\* calories on the label and menu paths, the three macros on the geometry
\* path; the schemas put no bound on a number
SchemaConforming ==
    /\ IsSome(ePayload)
    /\ LET p == Val(ePayload)
       IN  IF eHandlers[Len(eHandlers)] = "geometry"
              THEN IsSome(p.label) /\ IsSome(p.macros)
              ELSE IsSome(p.label) /\ IsSome(p.calories)

\* C24: for every schema-conforming answer of the inference service, the
\* item of a successful response has calories >= 0, sigmaCalories >= 0,
\* weightGrams >= 0, volumeML >= 0 and, when macros are present, every macro
\* field >= 0.
C24_ItemFieldsNonNegative ==
    (Succeeded /\ SchemaConforming) =>
        LET it == ResponseItem
        IN  /\ IsSome(it.calories) /\ Val(it.calories) >= 0
            /\ IsSome(it.sigmaCalories) /\ Val(it.sigmaCalories) >= 0
            /\ it.weightGrams >= 0
            /\ it.volumeML >= 0
            /\ IsSome(it.macros) =>
                    /\ Val(it.macros).proteinG >= 0
                    /\ Val(it.macros).carbsG >= 0
                    /\ Val(it.macros).fatG >= 0

(***************************************************************************)
(* Calories of the geometry path                                           *)
(***************************************************************************)
\* Math.round(proteinG x 4 + carbsG x 4 + fatG x 9) of the item's macros, in
\* whole kcal
MacroFigure(m) == RoundDiv(4 * m.proteinG + 4 * m.carbsG + 9 * m.fatG, 10)

\* C25: the geometry path reconciles the raw calorie figure with the
\* macro-derived one: the item's calories are the macro figure only when
\* that figure is >= 20 and the raw totalCalories are absent, or < 20, or the
\* macro figure > 0.5 x raw totalCalories; otherwise they are the raw
\* totalCalories of the vision service (macros all zero with raw
\* totalCalories = 231 give 231).
C25_GeometryReconciles ==
    (Succeeded /\ ResponseItem.path = "geometry" /\ IsSome(ResponseItem.macros)) =>
        LET fig == MacroFigure(Val(ResponseItem.macros))
            raw == Val(ePayload).calories
        IN  IF /\ fig >= 20
               /\ \/ ~IsSome(raw)
                  \/ Val(raw) < 200
                  \/ 20 * fig > Val(raw)
                THEN ResponseItem.calories = Some(10 * fig)
                ELSE IsSome(raw) => ResponseItem.calories = raw

(***************************************************************************)
(* Path payloads of the item                                               *)
(***************************************************************************)
\* C26: in every successful response the item carries the payload of its own
\* path only: nutritionLabel iff path = 'label', menuItem iff path = 'menu',
\* priors iff path = 'geometry', with density.sigma = 15% of density.mu and
\* kcalPerG.sigma = 20% of kcalPerG.mu (sigma in ten-thousandths, mu in
\* hundredths), and volumeML = 0.
C26_PayloadOfOwnPath ==
    Succeeded =>
        LET it == ResponseItem
        IN  /\ Len(Val(eResponse).items) = 1
            /\ it.path = eHandlers[Len(eHandlers)]
            /\ it.nutritionLabel <=> it.path = "label"
            /\ it.menuItem <=> it.path = "menu"
            /\ IsSome(it.priors) <=> it.path = "geometry"
            /\ IsSome(it.priors) =>
                    /\ Val(it.priors).density.mu = Val(ePayload).densityGML
                    /\ Val(it.priors).density.sigma = Val(it.priors).density.mu * 15
                    /\ Val(it.priors).kcalPerG.mu = Val(ePayload).kcalPerG
                    /\ Val(it.priors).kcalPerG.sigma = Val(it.priors).kcalPerG.mu * 20
            /\ it.volumeML = 0

C26_Witness ==
    /\ Succeeded
    /\ ResponseItem.path = "geometry"
    /\ ~ResponseItem.nutritionLabel
    /\ ~ResponseItem.menuItem
    /\ ResponseItem.priors = Some([density |-> [mu |-> 85, sigma |-> 1275],
                                   kcalPerG |-> [mu |-> 130, sigma |-> 2600]])
    /\ ResponseItem.volumeML = 0

(***************************************************************************)
(* Mutation of the backend's output                                        *)
(***************************************************************************)
\* `analysis` is the very object analyze() resolved with (line 104 keeps the
\* reference); backendMeta is its meta as the backend constructed it.
\* C27: the chain never mutates a value after its construction: the
\* AnalyzeOutput returned by a backend, and its meta, are the same after
\* analyzeViaDirectAnalyzers returned as when the backend returned them.
C27_BackendOutputUnchanged ==
    (pc = "done" /\ outcome.kind = "returned") =>
        /\ IsSome(analysis)
        /\ Val(analysis).meta = backendMeta

(***************************************************************************)
(* Properties of the AppProvider                                           *)
(***************************************************************************)
LoadFailed == wLoad.status = "settled" /\ ~wLoad.ok

\* C28: when the mount-time load of the food logs fails, the state the
\* previous session persisted under 'habitpet-app-state' is restored: the
\* fallback reads that state, not the initial state written over it, so the
\* persisted logs and the onboarding flag are in the application state.
C28_FallbackRestoresPersisted ==
    (LoadFailed /\ IsSome(wPersisted)) =>
        /\ IsSome(wFallback)
        /\ \A i \in 1..Len(Val(wPersisted).foodLogs) :
                Occurrences(wState.foodLogs, Val(wPersisted).foodLogs[i]) >= 1
        /\ Val(wPersisted).isOnboardingComplete => wState.isOnboardingComplete

\* C29: under every interleaving of the mount-time load with addFoodLog
\* calls, foodLogs never holds two entries with the same id; a log saved by
\* addFoodLog appears exactly once, also when the load completes after the
\* save, and a log whose save failed appears exactly once while its error is
\* re-thrown.
C29_NoDuplicateLogs ==
    /\ \A i, j \in 1..Len(wState.foodLogs) :
            wState.foodLogs[i] = wState.foodLogs[j] => i = j
    /\ \A n \in 1..Len(wAdds) :
            /\ wAdds[n].status \in {"returned", "thrown"} =>
                    Occurrences(wState.foodLogs, wAdds[n].logs[1]) = 1
            /\ (wAdds[n].status \in {"returned", "thrown"} /\ ~wAdds[n].ok) =>
                    wAdds[n].status = "thrown"

(***************************************************************************)
(* Availability and configuration                                          *)
(***************************************************************************)
InChain(type) == \E i \in 1..Len(fallbackChain) : fallbackChain[i] = type

\* C30: the availability that builds the fallback chain agrees with the
\* credentials the backends are constructed from: a backend is in the chain
\* iff resolveAnalyzer can construct it from the FoodAnalyzer's
\* configuration, so no chain member fails with 'credentials not configured'
\* and a backend whose credentials were given to the constructor is attempted
\* before the stub.
C30_ChainAgreesWithConfig ==
    pc \in {"loop", "await", "after", "done"} =>
        /\ \A type \in {"supabase", "openai"} :
                InChain(type) <=> resolveAnalyzer(type, config) = None
        /\ \A i \in 1..Len(attemptLog) : attemptLog[i][2] # "resolve-threw"
        /\ \A type \in {"supabase", "openai"} :
                (resolveAnalyzer(type, config) = None /\ Occurrences(callLog, "stub") > 0) =>
                    /\ Occurrences(callLog, type) > 0
                    /\ Position(callLog, type) < Position(callLog, "stub")

====
